---------------------------- MODULE Spec2Model ----------------------------
(***************************************************************************)
(* A model of plox, a tree-walking interpreter for Lox written in Python.  *)
(*                                                                         *)
(* The evaluator (src/lox/interpreter.py) and the environment chain        *)
(* (src/lox/environment.py) are modelled as recursive operators that       *)
(* thread an interpreter state `st` through the tree walk, exactly in the  *)
(* order the Python visitor methods run.  A Python exception is the field  *)
(* st.exc: once it is set every enclosing operator passes the state on     *)
(* unchanged until a handler (try/except, try/finally) acts on it.         *)
(*                                                                         *)
(* Python objects are modelled as follows.                                 *)
(*   run-time value : a record [t, n, d, s]; t is the dynamic type,        *)
(*                    n/d the exact value of a float (d > 0, lowest        *)
(*                    terms), s the text of a str                          *)
(*   Environment    : an index into the heap st.envs; 0 is None            *)
(*   AST node       : a record with the fields of the generated class, a   *)
(*                    field k naming the class and a field id standing for *)
(*                    the identity of the Python object                    *)
(*   Token          : a record [token_type, lexeme, literal, line]         *)
(***************************************************************************)
EXTENDS Integers, Sequences, FiniteSets, TLC

VARIABLES
    mode,       \* what is driven and how: see Modes
    status,     \* "running", or how the process ended
    had_error,  \* Lox.had_error
    had_runtime_error, \* Lox.had_runtime_error
    envs,       \* the heap of Environment objects; envs[1] is global_vars
    environment,\* Interpreter.environment
    locals,     \* Interpreter.locals, the resolution map
    funs,       \* the heap of LoxFunction objects
    out,        \* everything printed to stdout so far
    last,       \* what the last step did (history)
    calls       \* number of driver steps taken

vars == <<mode, status, had_error, had_runtime_error, envs, environment,
          locals, funs, out, last, calls>>

\* Let(v, K) is K with its parameter bound to v: `LET x == v IN K(x)`.
Let(v, K(_)) == K(v)

-----------------------------------------------------------------------------
(* Bounds of the model.                                                    *)

MaxLines == 2       \* lines typed at the prompt
MaxInterprets == 1  \* calls of interpret by a host that holds the Interpreter
MaxResolves == 2    \* calls of resolve by that host
MaxDistance == 1    \* the largest distance it resolves a node to
MaxIter == 4        \* loop iterations and calls of one interpret call
MaxLen == 4         \* characters of a source handed to a Scanner on its own

\* The Environment objects and the calls of their methods in one behaviour
\* of a host that drives Environments.
MaxEnvs == 3
MaxEnvOps == 3

-----------------------------------------------------------------------------
(* Run-time values.                                                        *)

NilV == [t |-> "nil", n |-> 0, d |-> 1, s |-> ""]
BoolV(b) == [t |-> "bool", n |-> IF b THEN 1 ELSE 0, d |-> 1, s |-> ""]
StrV(s) == [t |-> "str", n |-> 0, d |-> 1, s |-> s]

Abs(x) == IF x < 0 THEN -x ELSE x

RECURSIVE Gcd(_, _)
Gcd(a, b) == IF b = 0 THEN a ELSE Gcd(b, a % b)

\* The float n/d, in lowest terms with a positive denominator.
Rat(n, d) ==
    LET g == Gcd(Abs(n), Abs(d))
        sgn == IF d < 0 THEN -1 ELSE 1
    IN [t |-> "num", n |-> sgn * (n \div g), d |-> sgn * (d \div g), s |-> ""]

NumV(n) == [t |-> "num", n |-> n, d |-> 1, s |-> ""]

NativeV(name) == [t |-> "native", n |-> 0, d |-> 0, s |-> name]
ClassV(name) == [t |-> "class", n |-> 0, d |-> 0, s |-> name]
InstanceV(name) == [t |-> "instance", n |-> 0, d |-> 0, s |-> name]

IsFloat(v) == v.t = "num"
IsStr(v) == v.t = "str"
IsCallable(v) == v.t \in {"fun", "native", "class"}

\* type(x).__name__
TypeName(v) ==
    CASE v.t = "nil" -> "NoneType"
      [] v.t = "bool" -> "bool"
      [] v.t = "num" -> "float"
      [] v.t = "str" -> "str"
      [] v.t = "fun" -> "LoxFunction"
      [] v.t = "native" -> "NativeFunction"
      [] v.t = "class" -> "LoxClass"
      [] OTHER -> "LoxInstance"

-----------------------------------------------------------------------------
(* Exceptions.                                                             *)

NoToken == [token_type |-> "NONE", lexeme |-> "", literal |-> NilV, line |-> 0]

NoExc == [kind |-> "none", msg |-> "", token |-> NoToken, val |-> NilV]

\* lox.runtime_error.RuntimeException(message, token)
RuntimeException(msg, token) ==
    [kind |-> "RuntimeException", msg |-> msg, token |-> token, val |-> NilV]

\* An exception of the host language that is not a RuntimeException.
HostException(kind, msg) ==
    [kind |-> kind, msg |-> msg, token |-> NoToken, val |-> NilV]

\* lox.errors.return_error.Return(value)
ReturnExc(v) == [kind |-> "Return", msg |-> "", token |-> NoToken, val |-> v]

-----------------------------------------------------------------------------
(* Environment (src/lox/environment.py).  The heap `h` is a sequence of    *)
(* records [enclosing, values]; an Environment is its index, None is 0.    *)

None == 0

EmptyValues == [x \in {} |-> NilV]

\* Environment(enclosing): the heap with the new object appended.
NewEnvironment(h, enclosing) ==
    Append(h, [enclosing |-> enclosing, values |-> EmptyValues])

Bound(h, e, name) == name \in DOMAIN h[e].values

\* What an Environment method hands back: the heap, the exception it raised
\* (NoExc when it returned) and its return value.
EnvResult(h, exc, v) == [envs |-> h, exc |-> exc, v |-> v]

\* A define that writes to the enclosing environment when there is one.
define_in_enclosing(h, e, name, value) ==
    IF h[e].enclosing # None
    THEN [h EXCEPT ![h[e].enclosing].values = (name :> value) @@ @]
    ELSE [h EXCEPT ![e].values = (name :> value) @@ @]

define(h, e, name, value) ==
    [h EXCEPT ![e].values = (name :> value) @@ @]

\* ancestor(distance): `environment = environment.enclosing`, distance times.
\* Following the link of None is an AttributeError.
RECURSIVE ancestor(_, _, _)
ancestor(h, e, distance) ==
    IF distance = 0 THEN [err |-> FALSE, env |-> e]
    ELSE IF e = None THEN [err |-> TRUE, env |-> None]
    ELSE ancestor(h, h[e].enclosing, distance - 1)

get_at(h, e, distance, name) ==
    LET a == ancestor(h, e, distance) IN
    IF a.err
    THEN EnvResult(h, HostException("AttributeError", "enclosing"), NilV)
    ELSE IF a.env = None
    THEN EnvResult(h, HostException("AttributeError", "values"), NilV)
    ELSE IF ~Bound(h, a.env, name)
    THEN EnvResult(h, HostException("KeyError", name), NilV)
    ELSE EnvResult(h, NoExc, h[a.env].values[name])

\* An assign_at that ignores the distance.
assign_at_receiver(h, e, distance, name, value) ==
    EnvResult([h EXCEPT ![e].values = (name.lexeme :> value) @@ @],
              NoExc, NilV)

assign_at(h, e, distance, name, value) ==
    LET a == ancestor(h, e, distance) IN
    IF a.err
    THEN EnvResult(h, HostException("AttributeError", "enclosing"), NilV)
    ELSE IF a.env = None
    THEN EnvResult(h, HostException("AttributeError", "values"), NilV)
    ELSE EnvResult(define(h, a.env, name.lexeme, value), NoExc, NilV)

RECURSIVE get(_, _, _)
get(h, e, name) ==
    IF Bound(h, e, name.lexeme)
    THEN EnvResult(h, NoExc, h[e].values[name.lexeme])
    ELSE IF h[e].enclosing # None
    THEN get(h, h[e].enclosing, name)
    ELSE EnvResult(h, RuntimeException(
             "Undefined variable '" \o name.lexeme \o "'.", name), NilV)

\* The backquote of assign's message (a TLA+ string cannot hold the character).
BQ == "<backquote>"

\* An assign that binds the name where it is called.
assign_binds_here(h, e, name, value) ==
    EnvResult(define(h, e, name.lexeme, value), NoExc, NilV)

RECURSIVE assign(_, _, _, _)
assign(h, e, name, value) ==
    IF Bound(h, e, name.lexeme)
    THEN EnvResult(define(h, e, name.lexeme, value), NoExc, NilV)
    ELSE IF h[e].enclosing # None
    THEN assign(h, h[e].enclosing, name, value)
    ELSE EnvResult(h, RuntimeException(
             "Undefined variable " \o BQ \o name.lexeme \o BQ \o ".", name), NilV)

-----------------------------------------------------------------------------
(* The evaluator's state and its helpers.                                  *)
(*   st.envs, st.environment, st.locals : the Interpreter's fields         *)
(*   st.out   : the lines printed                                          *)
(*   st.exc   : the exception in flight (NoExc when none)                  *)
(*   st.trace : history of what ran, a sequence of [ev, a, b]              *)
(*   st.fuel  : loop iterations and calls left before the walk is cut      *)

global_vars == 1

Ok(st) == st.exc.kind = "none"

\* `raise exc`; the history notes a RuntimeException being raised.
Raise(st, exc) ==
    [st EXCEPT !.exc = exc,
               !.trace = IF exc.kind = "RuntimeException"
                         THEN Append(@, [ev |-> "raise", a |-> exc.token.line,
                                         b |-> 0])
                         ELSE @]

Res(st, v) == [st |-> st, v |-> v]

Log(st, ev, a, b) ==
    [st EXCEPT !.trace = Append(@, [ev |-> ev, a |-> a, b |-> b])]

\* The state after an Environment method has run.
AfterEnv(st, r) == Raise([st EXCEPT !.envs = r.envs], r.exc)

\* A walk that ran out of fuel never returns.
Diverge == HostException("Diverge", "")

-----------------------------------------------------------------------------
(* float arithmetic, exact on the values the model reaches.                *)

NumAdd(a, b) == Rat(a.n * b.d + b.n * a.d, a.d * b.d)
NumSub(a, b) == Rat(a.n * b.d - b.n * a.d, a.d * b.d)
NumMul(a, b) == Rat(a.n * b.n, a.d * b.d)
NumDiv(a, b) == Rat(a.n * b.d, a.d * b.n)
NumNeg(a) == Rat(-a.n, a.d)
NumLess(a, b) == a.n * b.d < b.n * a.d
NumEq(a, b) == a.n * b.d = b.n * a.d

-----------------------------------------------------------------------------
(* Interpreter helpers (src/lox/interpreter.py).                           *)

\* str(float) with a trailing ".0" cut: the digits of a whole value.  A
\* value that is not whole is written as the fraction it equals.
stringify(object) ==
    CASE object.t = "nil" -> "null"
      [] object.t = "num" ->
            IF object.d = 1 THEN ToString(object.n)
            ELSE ToString(object.n) \o "/" \o ToString(object.d)
      [] object.t = "bool" -> IF object.n = 1 THEN "True" ELSE "False"
      [] object.t = "str" -> object.s
      [] OTHER -> "<" \o object.t \o " " \o object.s \o ">"

is_truthy(obj) ==
    CASE obj.t = "nil" -> FALSE
      [] obj.t = "bool" -> obj.n = 1
      [] obj.t = "num" -> obj.n # 0
      [] obj.t = "str" -> obj.s # ""
      [] OTHER -> TRUE

\* Python's ==: bool is a number, str compares by content, objects by identity.
is_equal(a, b) ==
    IF a.t = "nil" /\ b.t = "nil" THEN TRUE
    ELSE IF a.t = "nil" THEN FALSE
    ELSE IF a.t \in {"bool", "num"} /\ b.t \in {"bool", "num"} THEN NumEq(a, b)
    ELSE IF a.t # b.t THEN FALSE
    ELSE IF a.t = "str" THEN a.s = b.s
    ELSE a = b

check_number_operand(st, operator, operand) ==
    IF IsFloat(operand) THEN st
    ELSE Raise(st, RuntimeException("Operand must be a number.", operator))

check_number_operands(st, operator, left, right) ==
    IF IsFloat(left) /\ IsFloat(right) THEN st
    ELSE Raise(st, RuntimeException("Operands must be numbers.", operator))

\* `if left or right == 0`, which Python reads as `left or (right == 0)`.
divide_check(left, right) == left.n # 0 \/ right.n = 0

-----------------------------------------------------------------------------
(* AST nodes (src/tool/AST/Expr.py, src/tool/AST/Stmt.py).                 *)

Token(token_type, lexeme, literal, line) ==
    [token_type |-> token_type, lexeme |-> lexeme, literal |-> literal,
     line |-> line]

Literal(id, value) == [k |-> "Literal", id |-> id, value |-> value]
Variable(id, name) == [k |-> "Variable", id |-> id, name |-> name]
Assign(id, name, value) ==
    [k |-> "Assign", id |-> id, name |-> name, value |-> value]
Binary(id, left, operator, right) ==
    [k |-> "Binary", id |-> id, left |-> left, operator |-> operator,
     right |-> right]
Logical(id, left, operator, right) ==
    [k |-> "Logical", id |-> id, left |-> left, operator |-> operator,
     right |-> right]
Unary(id, operator, right) ==
    [k |-> "Unary", id |-> id, operator |-> operator, right |-> right]
Grouping(id, expression) ==
    [k |-> "Grouping", id |-> id, expression |-> expression]
Call(id, callee, paren, arguments) ==
    [k |-> "Call", id |-> id, callee |-> callee, paren |-> paren,
     arguments |-> arguments]

Block(statements) == [k |-> "Block", statements |-> statements]
Class(name, methods) == [k |-> "Class", name |-> name, methods |-> methods]
Expression(expression) == [k |-> "Expression", expression |-> expression]
Function(name, params, body) ==
    [k |-> "Function", name |-> name, params |-> params, body |-> body]
If(condition, thenBranch, elseBranch) ==
    [k |-> "If", condition |-> condition, thenBranch |-> thenBranch,
     elseBranch |-> elseBranch]
PrintStmt(expression) == [k |-> "Print", expression |-> expression]
Return(keyword, value) == [k |-> "Return", keyword |-> keyword, value |-> value]
Var(name, initializer) ==
    [k |-> "Var", name |-> name, initializer |-> initializer]
While(condition, body) == [k |-> "While", condition |-> condition, body |-> body]

-----------------------------------------------------------------------------
(* Callables.  lox_function.py, lox_class.py and native_functions.py are   *)
(* not among the sources; LoxFunction follows the description of the       *)
(* function value: arity is the number of declared parameters, and call    *)
(* binds them in a fresh child of the closure and runs the body as a       *)
(* block, a Return unwind supplying the result.  A LoxFunction object is   *)
(* an index into the heap st.funs of [declaration, closure] records.       *)

FunV(f) == [t |-> "fun", n |-> f, d |-> 0, s |-> ""]

arity(st, callee) ==
    IF callee.t = "fun" THEN Len(st.funs[callee.n].declaration.params)
    ELSE 0

\* define_native_functions(global_vars): the clock function.
define_native_functions(h) == define(h, global_vars, "clock", NativeV("clock"))

\* Binds params[i..] to arguments[i..] in environment e.
RECURSIVE bind_parameters(_, _, _, _, _)
bind_parameters(h, e, params, arguments, i) ==
    IF i > Len(params) THEN h
    ELSE bind_parameters(define(h, e, params[i].lexeme, arguments[i]),
                         e, params, arguments, i + 1)

-----------------------------------------------------------------------------
(* The tree walk (src/lox/interpreter.py).  evaluate hands back            *)
(* [st, v]; execute hands back the state.                                  *)

NoneNode == [k |-> "None", id |-> 0]

IsNone(node) == node.k = "None"

\* Python's None as a resolution distance.
NoDistance == -1

RECURSIVE evaluate(_, _)
RECURSIVE execute(_, _)
RECURSIVE execute_statements(_, _, _)
RECURSIVE evaluate_arguments(_, _, _, _)
RECURSIVE visit_while_stmt(_, _)

visit_literal_expr(expr, st) == Res(st, expr.value)

visit_grouping_expr(expr, st) == evaluate(expr.expression, st)

visit_unary_expr(expr, st) ==
    Let(evaluate(expr.right, st), LAMBDA r :
        IF ~Ok(r.st) THEN r
        ELSE CASE expr.operator.token_type = "BANG" ->
                    Res(r.st, BoolV(~is_truthy(r.v)))
               [] expr.operator.token_type = "MINUS" ->
                    Let(check_number_operand(r.st, expr.operator, r.v),
                        LAMBDA c : IF Ok(c) THEN Res(c, NumNeg(r.v))
                                   ELSE Res(c, NilV))
               [] OTHER -> Res(r.st, NilV))

\* A visit_logical_expr that always goes on to the right operand.
never_short_circuits(token_type, left) == FALSE

\* Whether visit_logical_expr returns the left operand without evaluating
\* the right one.
short_circuits(token_type, left) ==
    \/ token_type = "OR" /\ is_truthy(left)
    \/ token_type = "AND" /\ ~is_truthy(left)

visit_logical_expr(expr, st) ==
    Let(evaluate(expr.left, st), LAMBDA l :
        IF ~Ok(l.st) THEN l
        ELSE IF expr.operator.token_type \notin {"OR", "AND"}
        THEN Res(l.st, NilV)
        ELSE IF short_circuits(expr.operator.token_type, l.v) THEN l
        ELSE evaluate(expr.right, l.st))

\* resolve(expr, depth): self.locals[expr] = depth
resolve(map, id, depth) == (id :> depth) @@ map

\* Whether lookup_variable takes the get_at path.
is_resolved(st, expr) ==
    expr.id \in DOMAIN st.locals /\ st.locals[expr.id] # NoDistance

lookup_variable(name, expr, st) ==
    IF is_resolved(st, expr)
    THEN Let(get_at(st.envs, st.environment, st.locals[expr.id], name.lexeme),
             LAMBDA r : Res(AfterEnv(Log(st, "get_at", expr.id,
                                         st.locals[expr.id]), r), r.v))
    ELSE Let(get(st.envs, global_vars, name),
             LAMBDA r : Res(AfterEnv(Log(st, "get", expr.id, 0), r), r.v))

visit_variable_expr(expr, st) == lookup_variable(expr.name, expr, st)

\* The second half of visit_assign_expr: the value is val.v.
assign_value(expr, val) ==
    IF expr.id \notin DOMAIN val.st.locals
    THEN Res(Raise(val.st, HostException("KeyError", "locals")), NilV)
    ELSE IF val.st.locals[expr.id] # NoDistance
    THEN Let(assign_at(val.st.envs, val.st.environment,
                       val.st.locals[expr.id], expr.name, val.v),
             LAMBDA r : Res(AfterEnv(Log(val.st, "assign_at", expr.id,
                                         val.st.locals[expr.id]), r), val.v))
    ELSE Let(assign(val.st.envs, global_vars, expr.name, val.v),
             LAMBDA r : Res(AfterEnv(Log(val.st, "assign", expr.id, 0), r),
                            val.v))

visit_assign_expr(expr, st) ==
    Let(evaluate(expr.value, st), LAMBDA val :
        IF ~Ok(val.st) THEN val ELSE assign_value(expr, val))

binary_plus(expr, st, left, right) ==
    IF IsFloat(left) /\ IsFloat(right) THEN Res(st, NumAdd(left, right))
    ELSE IF IsStr(left) /\ IsStr(right) THEN Res(st, StrV(left.s \o right.s))
    ELSE IF IsStr(left) \/ IsStr(right)
    THEN Res(st, StrV(stringify(left) \o stringify(right)))
    ELSE Res(Raise(st, RuntimeException(
             "Unsupported operand types for '" \o expr.operator.lexeme
             \o "': cannot use with '" \o TypeName(left) \o "' and '"
             \o TypeName(right) \o "'.", expr.operator)), NilV)

binary_slash(expr, st, left, right) ==
    IF ~(IsFloat(left) /\ IsFloat(right))
    THEN Res(check_number_operands(st, expr.operator, left, right), NilV)
    ELSE IF divide_check(left, right)
    THEN Res(Raise(st, RuntimeException("Cannot divide by zero.",
                                        expr.operator)), NilV)
    ELSE IF right.n = 0
    THEN Res(Raise(st, HostException("ZeroDivisionError", "")), NilV)
    ELSE Res(st, NumDiv(left, right))

\* The operators that need two numbers and cannot fail on them.
numeric_result(token_type, left, right) ==
    CASE token_type = "GREATER" -> BoolV(NumLess(right, left))
      [] token_type = "GREATER_EQUAL" -> BoolV(~NumLess(left, right))
      [] token_type = "LESS" -> BoolV(NumLess(left, right))
      [] token_type = "LESS_EQUAL" -> BoolV(~NumLess(right, left))
      [] token_type = "MINUS" -> NumSub(left, right)
      [] token_type = "STAR" -> NumMul(left, right)

\* The match statement of visit_binary_expr, both operands evaluated.
binary_result(expr, st, left, right) ==
    CASE expr.operator.token_type \in
             {"GREATER", "GREATER_EQUAL", "LESS", "LESS_EQUAL", "MINUS",
              "STAR"} ->
            IF IsFloat(left) /\ IsFloat(right)
            THEN Res(st, numeric_result(expr.operator.token_type, left, right))
            ELSE Res(check_number_operands(st, expr.operator, left, right),
                     NilV)
      [] expr.operator.token_type = "PLUS" -> binary_plus(expr, st, left, right)
      [] expr.operator.token_type = "SLASH" ->
            binary_slash(expr, st, left, right)
      [] expr.operator.token_type = "BANG_EQUAL" ->
            Res(st, BoolV(~is_equal(left, right)))
      [] expr.operator.token_type = "EQUAL_EQUAL" ->
            Res(st, BoolV(is_equal(left, right)))
      [] OTHER -> Res(st, NilV)

visit_binary_expr(expr, st) ==
    Let(evaluate(expr.left, st), LAMBDA l :
        IF ~Ok(l.st) THEN l
        ELSE Let(evaluate(expr.right, l.st), LAMBDA r :
                 IF ~Ok(r.st) THEN r
                 ELSE binary_result(expr, r.st, l.v, r.v)))

\* An execute_block without the finally: the assignment after the loop is
\* skipped when a statement raised.
restore_unless_raised(st, previous) ==
    IF Ok(st) THEN [st EXCEPT !.environment = previous] ELSE st

\* finally: self.environment = previous
restore_environment(st, previous) == [st EXCEPT !.environment = previous]

execute_block(statements, env, st) ==
    Let(restore_environment(
            execute_statements(statements, 1,
                Log([st EXCEPT !.environment = env], "block_enter",
                    st.environment, env)),
            st.environment),
        LAMBDA left : Log(left, "block_exit", st.environment,
                          left.environment))

\* `except Return as r: return r.value`, else `return None`
function_result(done) ==
    IF done.exc.kind = "Return"
    THEN Res([done EXCEPT !.exc = NoExc], done.exc.val)
    ELSE Res(done, NilV)

\* LoxFunction.call(interpreter, arguments)
function_call(st, f, arguments) ==
    IF Len(arguments) < Len(st.funs[f].declaration.params)
    THEN Res(Raise(st, HostException("IndexError", "arguments")), NilV)
    ELSE
    Let(NewEnvironment(st.envs, st.funs[f].closure), LAMBDA h :
        function_result(
            execute_block(st.funs[f].declaration.body, Len(h),
                [st EXCEPT !.envs = bind_parameters(h, Len(h),
                     st.funs[f].declaration.params, arguments, 1)])))

\* function.call(self, arguments) for each kind of LoxCallable.
callable_call(st, callee, arguments, expr) ==
    IF st.fuel = 0
    THEN Res(Raise(Log(st, "call", expr.id, Len(arguments)), Diverge), NilV)
    ELSE CASE callee.t = "fun" ->
                function_call([Log(st, "call", expr.id, Len(arguments))
                                  EXCEPT !.fuel = @ - 1], callee.n, arguments)
           [] callee.t = "native" ->
                Res(Log(st, "call", expr.id, Len(arguments)), NumV(0))
           [] OTHER ->
                Res(Log(st, "call", expr.id, Len(arguments)),
                    InstanceV(callee.s))

\* A visit_call_expr without the arity check.
arity_never_mismatch(n, declared) == FALSE

\* `len(arguments) != function.arity()`
arity_mismatch(n, declared) == n # declared

\* visit_call_expr once the callee and the arguments are evaluated.
\* The arity check and what follows it; the history notes the two counts.
check_arity(expr, st, callee, arguments) ==
    IF arity_mismatch(Len(arguments), arity(st, callee))
    THEN Res(Raise(st, HostException("RuntimeError",
             "Expected " \o ToString(arity(st, callee))
             \o " arguments but got " \o ToString(Len(arguments)) \o ".")),
             NilV)
    ELSE callable_call(st, callee, arguments, expr)

call_value(expr, st, callee, arguments) ==
    IF ~IsCallable(callee)
    THEN Res(Raise(st, RuntimeException(
             "You can only call functions and classes.", expr.paren)), NilV)
    ELSE check_arity(expr, Log(st, "arity", arity(st, callee), Len(arguments)),
                     callee, arguments)

visit_call_expr(expr, st) ==
    Let(evaluate(expr.callee, st), LAMBDA callee :
        IF ~Ok(callee.st) THEN callee
        ELSE Let(evaluate_arguments(expr.arguments, 1, callee.st, <<>>),
                 LAMBDA args :
                     IF ~Ok(args.st) THEN Res(args.st, NilV)
                     ELSE call_value(expr, args.st, callee.v, args.v)))

evaluate_arguments(arguments, i, st, acc) ==
    IF i > Len(arguments) THEN Res(st, acc)
    ELSE Let(evaluate(arguments[i], st), LAMBDA r :
             IF ~Ok(r.st) THEN Res(r.st, acc)
             ELSE evaluate_arguments(arguments, i + 1, r.st, Append(acc, r.v)))

\* expr.accept(self), from evaluate
accept_expr(expr, st) ==
    CASE expr.k = "Literal" -> visit_literal_expr(expr, st)
      [] expr.k = "Grouping" -> visit_grouping_expr(expr, st)
      [] expr.k = "Unary" -> visit_unary_expr(expr, st)
      [] expr.k = "Logical" -> visit_logical_expr(expr, st)
      [] expr.k = "Variable" -> visit_variable_expr(expr, st)
      [] expr.k = "Assign" -> visit_assign_expr(expr, st)
      [] expr.k = "Binary" -> visit_binary_expr(expr, st)
      [] expr.k = "Call" -> visit_call_expr(expr, st)
      [] OTHER -> Res(Raise(st, HostException("AttributeError", "accept")),
                      NilV)

evaluate(expr, st) == accept_expr(expr, Log(st, "eval", expr.id, 0))

visit_block_stmt(stmt, st) ==
    Let(NewEnvironment(st.envs, st.environment), LAMBDA h :
        execute_block(stmt.statements, Len(h), [st EXCEPT !.envs = h]))

visit_class_stmt(stmt, st) ==
    AfterEnv(st, assign(define(st.envs, st.environment, stmt.name.lexeme, NilV),
                        st.environment, stmt.name, ClassV(stmt.name.lexeme)))

visit_expression_stmt(stmt, st) == evaluate(stmt.expression, st).st

visit_function_stmt(stmt, st) ==
    Let(Append(st.funs, [declaration |-> stmt, closure |-> st.environment]),
        LAMBDA fs :
            [st EXCEPT !.funs = fs,
                       !.envs = define(st.envs, st.environment,
                                       stmt.name.lexeme, FunV(Len(fs)))])

visit_if_stmt(stmt, st) ==
    Let(evaluate(stmt.condition, st), LAMBDA c :
        IF ~Ok(c.st) THEN c.st
        ELSE IF is_truthy(c.v) THEN execute(stmt.thenBranch, c.st)
        ELSE IF ~IsNone(stmt.elseBranch) THEN execute(stmt.elseBranch, c.st)
        ELSE c.st)

visit_print_stmt(stmt, st) ==
    Let(evaluate(stmt.expression, st), LAMBDA r :
        IF ~Ok(r.st) THEN r.st
        ELSE [r.st EXCEPT !.out = Append(@, stringify(r.v))])

visit_return_stmt(stmt, st) ==
    IF IsNone(stmt.value) THEN Raise(st, ReturnExc(NilV))
    ELSE Let(evaluate(stmt.value, st), LAMBDA r :
             IF ~Ok(r.st) THEN r.st ELSE Raise(r.st, ReturnExc(r.v)))

visit_var_stmt(stmt, st) ==
    Let(IF IsNone(stmt.initializer) THEN Res(st, NilV)
        ELSE evaluate(stmt.initializer, st),
        LAMBDA r :
            IF ~Ok(r.st) THEN r.st
            ELSE [r.st EXCEPT !.envs = define(r.st.envs, r.st.environment,
                                              stmt.name.lexeme, r.v)])

visit_while_stmt(stmt, st) ==
    Let(evaluate(stmt.condition, st), LAMBDA c :
        IF ~Ok(c.st) THEN c.st
        ELSE IF ~is_truthy(c.v) THEN c.st
        ELSE IF c.st.fuel = 0 THEN Raise(c.st, Diverge)
        ELSE Let(execute(stmt.body, [c.st EXCEPT !.fuel = @ - 1]), LAMBDA b :
                 IF ~Ok(b) THEN b ELSE visit_while_stmt(stmt, b)))

\* stmt.accept(self); a None statement has no accept.
execute(stmt, st) ==
    CASE stmt.k = "Block" -> visit_block_stmt(stmt, st)
      [] stmt.k = "Class" -> visit_class_stmt(stmt, st)
      [] stmt.k = "Expression" -> visit_expression_stmt(stmt, st)
      [] stmt.k = "Function" -> visit_function_stmt(stmt, st)
      [] stmt.k = "If" -> visit_if_stmt(stmt, st)
      [] stmt.k = "Print" -> visit_print_stmt(stmt, st)
      [] stmt.k = "Return" -> visit_return_stmt(stmt, st)
      [] stmt.k = "Var" -> visit_var_stmt(stmt, st)
      [] stmt.k = "While" -> visit_while_stmt(stmt, st)
      [] OTHER -> Raise(st, HostException("AttributeError", "accept"))

\* `for statement in statements: self.execute(statement)`, from index i on.
execute_statements(statements, i, st) ==
    IF i > Len(statements) THEN st
    ELSE Let(execute(statements[i], Log(st, "exec", i, st.environment)),
             LAMBDA s : IF ~Ok(s) THEN s
                        ELSE execute_statements(statements, i + 1, s))

\* Lox.runtime_error(error), the reporter Lox hands to its Interpreter.
runtime_error(st, error) ==
    [Log(st, "report", error.token.line, 0) EXCEPT
        !.out = Append(@, error.msg \o "\n[line "
                          \o ToString(error.token.line) \o "]"),
        !.had_runtime_error = TRUE]

\* An interpret without the except clause.
interpret_catches_nothing(exc) == FALSE

\* `except RuntimeException as error`
interpret_catches(exc) == exc.kind = "RuntimeException"

RECURSIVE interpret_statements(_, _, _)
interpret_statements(statements, i, st) ==
    IF i > Len(statements) THEN st
    ELSE Let(execute(statements[i], Log(st, "stmt", i, 0)),
             LAMBDA s : IF ~Ok(s) THEN s
                        ELSE interpret_statements(statements, i + 1, s))

\* Interpreter.interpret(statements).  The state handed back still carries
\* an exception that interpret does not catch.
interpret(statements, st) ==
    Let(interpret_statements(statements, 1, st), LAMBDA s :
        IF interpret_catches(s.exc)
        THEN runtime_error([s EXCEPT !.exc = NoExc], s.exc)
        ELSE s)

-----------------------------------------------------------------------------
(* Parser (src/lox/parser.py).  The parser object is the record p:         *)
(*   p.tokens, p.current : its fields (current counts from 0)              *)
(*   p.errors : the calls of error_reporter so far, as [token, message]    *)
(*   p.exc    : the exception in flight                                    *)
(*   p.syncs  : where each call of synchronise began and ended             *)
(*   p.decls  : where each call of declaration began and ended, and        *)
(*              whether parse or block made it                             *)
(* A parsing method hands back [p, node].  The id of a node is the         *)
(* position of the token it was built from, which no other live node of    *)
(* the same parse shares.                                                  *)

ParseError == HostException("ParseError", "")

PRes(p, node) == [p |-> p, node |-> node]

POk(p) == p.exc.kind = "none"

\* The rest K of a method after a call that handed back r: it runs unless
\* the call raised.
PThen(r, K(_)) == IF ~POk(r.p) THEN PRes(r.p, NoneNode) ELSE K(r)

peek(p) == p.tokens[p.current + 1]

\* tokens[current - 1]; with current = 0 Python's index -1 is the last token.
previous(p) == IF p.current = 0 THEN p.tokens[Len(p.tokens)]
               ELSE p.tokens[p.current]

is_at_end(p) == peek(p).token_type = "EOF"

check(p, type) == ~is_at_end(p) /\ peek(p).token_type = type

advance(p) == IF ~is_at_end(p) THEN [p EXCEPT !.current = @ + 1] ELSE p

\* match(*types): whether one of the types is next; the caller advances.
MatchAny(p, types) == ~is_at_end(p) /\ peek(p).token_type \in types

\* error(token, message): reports, and hands back the ParseError to raise.
error(p, token, message) ==
    [p EXCEPT !.errors = Append(@, [token |-> token, message |-> message])]

\* consume(type, message): hands back [p, node] with node the token.
consume(p, type, message) ==
    IF check(p, type) THEN PRes(advance(p), peek(p))
    ELSE PRes([error(p, peek(p), message) EXCEPT !.exc = ParseError], NoToken)

\* The call of declaration that `by` made on p and that handed back d.
Called(by, p, d) ==
    [d EXCEPT !.p.decls = Append(@, [by |-> by, from |-> p.current,
                                     to |-> d.p.current])]

RECURSIVE assignment(_)
RECURSIVE unary(_)
RECURSIVE binary_level(_, _)
RECURSIVE binary_loop(_, _, _)
RECURSIVE statement(_)
RECURSIVE declaration(_)
RECURSIVE block_statements(_, _)
RECURSIVE synchronise_loop(_)

expression(p) == assignment(p)

primary(p) ==
    IF MatchAny(p, {"FALSE"})
    THEN PRes([advance(p) EXCEPT !.exc = HostException("NameError", "Literal")],
              NoneNode)
    ELSE IF MatchAny(p, {"TRUE"})
    THEN PRes(advance(p), Literal(p.current + 1, BoolV(TRUE)))
    ELSE IF MatchAny(p, {"NULL"})
    THEN PRes(advance(p), Literal(p.current + 1, NilV))
    ELSE IF MatchAny(p, {"NUMBER", "STRING"})
    THEN PRes(advance(p), Literal(p.current + 1, peek(p).literal))
    ELSE IF MatchAny(p, {"IDENTIFIER"})
    THEN PRes(advance(p), Variable(p.current + 1, peek(p)))
    ELSE IF MatchAny(p, {"LEFT_PAREN"})
    THEN PThen(expression(advance(p)), LAMBDA e :
         PThen(consume(e.p, "RIGHT_PAREN", "Expected ')' after expression."),
               LAMBDA c : PRes(c.p, Grouping(p.current + 1, e.node))))
    ELSE PRes([error(p, peek(p), "Expected an expression.")
                  EXCEPT !.exc = ParseError], NoneNode)

unary(p) ==
    IF MatchAny(p, {"BANG", "MINUS"})
    THEN PThen(unary(advance(p)), LAMBDA right :
               PRes(right.p, Unary(p.current + 1, peek(p), right.node)))
    ELSE primary(p)

\* The left-associative levels of the grammar, lowest number binding
\* tightest: each is `operand ( operator operand )*` over the level below.
LevelTypes(level) ==
    CASE level = 1 -> {"SLASH", "STAR"}
      [] level = 2 -> {"MINUS", "PLUS"}
      [] level = 3 -> {"GREATER", "GREATER_EQUAL", "LESS", "LESS_EQUAL"}
      [] level = 4 -> {"BANG_EQUAL", "EQUAL_EQUAL"}
      [] level = 5 -> {"AND"}
      [] level = 6 -> {"OR"}

LevelNode(level, id, left, operator, right) ==
    IF level >= 5 THEN Logical(id, left, operator, right)
    ELSE Binary(id, left, operator, right)

binary_loop(level, p, expr) ==
    IF MatchAny(p, LevelTypes(level))
    THEN PThen(binary_level(level - 1, advance(p)), LAMBDA right :
               binary_loop(level, right.p,
                   LevelNode(level, p.current + 1, expr, peek(p), right.node)))
    ELSE PRes(p, expr)

binary_level(level, p) ==
    IF level = 0 THEN unary(p)
    ELSE PThen(binary_level(level - 1, p), LAMBDA left :
               binary_loop(level, left.p, left.node))

factor(p) == binary_level(1, p)
term(p) == binary_level(2, p)
comparison(p) == binary_level(3, p)
equality(p) == binary_level(4, p)
logical_and(p) == binary_level(5, p)
logical_or(p) == binary_level(6, p)

\* An assignment that raises the error it reports.
invalid_target_raises(p, equals, expr) ==
    PRes([error(p, equals, "Invalid assignment target.")
             EXCEPT !.exc = ParseError], NoneNode)

\* The end of assignment() when expr is no Variable: the error is reported,
\* not raised, and expr is returned.
invalid_target(p, equals, expr) ==
    PRes(error(p, equals, "Invalid assignment target."), expr)

assignment(p) ==
    PThen(logical_or(p), LAMBDA e :
        IF MatchAny(e.p, {"EQUAL"})
        THEN PThen(assignment(advance(e.p)), LAMBDA value :
                 IF e.node.k = "Variable"
                 THEN PRes(value.p, Assign(e.node.id, e.node.name, value.node))
                 ELSE invalid_target(value.p, peek(e.p), e.node))
        ELSE e)

print_statement(p) ==
    PThen(expression(p), LAMBDA value :
    PThen(consume(value.p, "SEMICOLON", "Expect ';' after value."), LAMBDA c :
          PRes(c.p, PrintStmt(value.node))))

expression_statement(p) ==
    PThen(expression(p), LAMBDA e :
    PThen(consume(e.p, "SEMICOLON", "Expect ';' after expression."), LAMBDA c :
          PRes(c.p, Expression(e.node))))

var_declaration(p) ==
    PThen(consume(p, "IDENTIFIER", "Expected a variable name."), LAMBDA name :
    PThen(IF MatchAny(name.p, {"EQUAL"}) THEN expression(advance(name.p))
          ELSE PRes(name.p, NoneNode), LAMBDA initialiser :
    PThen(consume(initialiser.p, "SEMICOLON",
                  "Expected ';' after variable declaration."), LAMBDA c :
          PRes(c.p, Var(name.node, initialiser.node)))))

while_statement(p) ==
    PThen(consume(p, "LEFT_PAREN", "Expected '(' after 'while'."), LAMBDA lp :
    PThen(expression(lp.p), LAMBDA condition :
    PThen(consume(condition.p, "RIGHT_PAREN",
                  "Expected ')' after 'condition'."), LAMBDA rp :
    PThen(statement(rp.p), LAMBDA body :
          PRes(body.p, While(condition.node, body.node))))))

if_statement(p) ==
    PThen(consume(p, "LEFT_PAREN", "Expected '(' after 'if'."), LAMBDA lp :
    PThen(expression(lp.p), LAMBDA condition :
    PThen(consume(condition.p, "RIGHT_PAREN",
                  "Expected ')' after if condition."), LAMBDA rp :
    PThen(statement(rp.p), LAMBDA then_branch :
    PThen(IF MatchAny(then_branch.p, {"ELSE"})
          THEN statement(advance(then_branch.p))
          ELSE PRes(then_branch.p, NoneNode), LAMBDA else_branch :
          PRes(else_branch.p, If(condition.node, then_branch.node,
                                 else_branch.node)))))))

\* The desugaring at the end of for_statement.
\* A desugaring that runs the increment before the body.
increment_before_body(increment, body) ==
    IF ~IsNone(increment) THEN Block(<<Expression(increment), body>>) ELSE body

for_increment(increment, body) ==
    IF ~IsNone(increment) THEN Block(<<body, Expression(increment)>>) ELSE body

for_condition(condition) ==
    IF IsNone(condition) THEN Literal(0, BoolV(TRUE)) ELSE condition

for_initialiser(initialiser, loop) ==
    IF ~IsNone(initialiser) THEN Block(<<initialiser, loop>>) ELSE loop

for_desugar(initialiser, condition, increment, body) ==
    for_initialiser(initialiser,
        While(for_condition(condition), for_increment(increment, body)))

for_statement(p) ==
    PThen(consume(p, "LEFT_PAREN", "Expected '(' after 'for'."), LAMBDA lp :
    PThen(IF MatchAny(lp.p, {"SEMICOLON"}) THEN PRes(advance(lp.p), NoneNode)
          ELSE IF MatchAny(lp.p, {"VAR"}) THEN var_declaration(advance(lp.p))
          ELSE expression_statement(lp.p), LAMBDA initialiser :
    PThen(IF ~check(initialiser.p, "SEMICOLON") THEN expression(initialiser.p)
          ELSE PRes(initialiser.p, NoneNode), LAMBDA condition :
    PThen(consume(condition.p, "SEMICOLON",
                  "Expected ';' after loop condition."), LAMBDA semi :
    PThen(IF ~check(semi.p, "RIGHT_PAREN") THEN expression(semi.p)
          ELSE PRes(semi.p, NoneNode), LAMBDA increment :
    PThen(consume(increment.p, "RIGHT_PAREN",
                  "Expected ')' after for clauses."), LAMBDA rp :
    PThen(statement(rp.p), LAMBDA body :
          PRes(body.p, for_desugar(initialiser.node, condition.node,
                                   increment.node, body.node)))))))))

\* block(): the statements up to the closing brace, as [p, node] with node
\* the list of statements.
block_statements(p, statements) ==
    IF ~check(p, "RIGHT_BRACE") /\ ~is_at_end(p)
    THEN PThen(Called("block", p, declaration(p)), LAMBDA d :
               block_statements(d.p, Append(statements, d.node)))
    ELSE PRes(p, statements)

block(p) ==
    PThen(block_statements(p, <<>>), LAMBDA b :
    PThen(consume(b.p, "RIGHT_BRACE", "Expected '}' to finish block."),
          LAMBDA c : PRes(c.p, b.node)))

statement(p) ==
    IF MatchAny(p, {"FOR"}) THEN for_statement(advance(p))
    ELSE IF MatchAny(p, {"IF"}) THEN if_statement(advance(p))
    ELSE IF MatchAny(p, {"PRINT"}) THEN print_statement(advance(p))
    ELSE IF MatchAny(p, {"WHILE"}) THEN while_statement(advance(p))
    ELSE IF MatchAny(p, {"LEFT_BRACE"})
    THEN PThen(block(advance(p)), LAMBDA b : PRes(b.p, Block(b.node)))
    ELSE expression_statement(p)

SynchroniseTypes ==
    {"CLASS", "FUN", "VAR", "FOR", "IF", "WHILE", "PRINT", "RETURN"}

synchronise_loop(p) ==
    IF is_at_end(p) THEN p
    ELSE IF previous(p).token_type = "SEMICOLON" THEN p
    ELSE IF peek(p).token_type \in SynchroniseTypes THEN p
    ELSE synchronise_loop(advance(p))

synchronise(p) ==
    Let(synchronise_loop(advance(p)), LAMBDA q :
        [q EXCEPT !.syncs = Append(@, [from |-> p.current, to |-> q.current])])

\* `except Parser.ParseError`: synchronise, and the method returns None.
declaration_except(d) ==
    IF d.p.exc.kind = "ParseError"
    THEN PRes(synchronise([d.p EXCEPT !.exc = NoExc]), NoneNode)
    ELSE d

declaration(p) ==
    declaration_except(IF MatchAny(p, {"VAR"}) THEN var_declaration(advance(p))
                       ELSE statement(p))

RECURSIVE parse_loop(_, _)
parse_loop(p, statements) ==
    IF ~is_at_end(p)
    THEN PThen(Called("parse", p, declaration(p)), LAMBDA d :
               parse_loop(d.p, Append(statements, d.node)))
    ELSE PRes(p, statements)

\* Parser(tokens, error_reporter)
Parser(tokens) == [tokens |-> tokens, current |-> 0, errors |-> <<>>,
                   exc |-> NoExc, syncs |-> <<>>, decls |-> <<>>]

parse(p) == parse_loop(p, <<>>)

-----------------------------------------------------------------------------
(* Scanner (src/lox/scanner.py).  The source is a sequence of one-character*)
(* strings.  The scanner object is the record s:                           *)
(*   s.source, s.tokens, s.start, s.current, s.line : its fields           *)
(*   s.errors : the calls of error_reporter so far, as [line, message]     *)
(*   s.exc    : the exception in flight                                    *)
(* The methods it shares a name with the Parser's carry the prefix scan_.  *)

Digits == {"0", "1", "2", "3", "4", "5", "6", "7", "8", "9"}

Letters == {"a", "b", "c", "d", "e", "f", "g", "h", "i", "j", "k", "l", "m",
            "n", "o", "p", "q", "r", "s", "t", "u", "v", "w", "x", "y", "z"}

\* peek() at the end of the source
NUL == "\\0"

RECURSIVE Concat(_)
Concat(chars) == IF chars = <<>> THEN ""
                 ELSE Head(chars) \o Concat(Tail(chars))

DigitValue(c) ==
    CASE c = "0" -> 0 [] c = "1" -> 1 [] c = "2" -> 2 [] c = "3" -> 3
      [] c = "4" -> 4 [] c = "5" -> 5 [] c = "6" -> 6 [] c = "7" -> 7
      [] c = "8" -> 8 [] c = "9" -> 9

\* float(text) of a run of digits
RECURSIVE ToFloat(_)
ToFloat(chars) ==
    IF chars = <<>> THEN 0
    ELSE 10 * ToFloat(SubSeq(chars, 1, Len(chars) - 1))
         + DigitValue(chars[Len(chars)])

keywords(text) ==
    CASE text = "and" -> "AND"
      [] text = "class" -> "CLASS"
      [] text = "else" -> "ELSE"
      [] text = "false" -> "FALSE"
      [] text = "for" -> "FOR"
      [] text = "fun" -> "FUN"
      [] text = "if" -> "IF"
      [] text = "null" -> "NULL"
      [] text = "or" -> "OR"
      [] text = "print" -> "PRINT"
      [] text = "return" -> "RETURN"
      [] text = "super" -> "SUPER"
      [] text = "this" -> "THIS"
      [] text = "true" -> "TRUE"
      [] text = "var" -> "VAR"
      [] text = "while" -> "WHILE"
      [] OTHER -> "IDENTIFIER"

\* The Scanner object; steps is where each call of scan_token found
\* `current` and where it left it.
Scanner(source) ==
    [source |-> source, tokens |-> <<>>, start |-> 0, current |-> 0,
     line |-> 1, errors |-> <<>>, exc |-> NoExc, steps |-> <<>>]

scan_is_at_end(s) == s.current >= Len(s.source)

scan_advance(s) == [s EXCEPT !.current = @ + 1]

scan_peek(s) == IF scan_is_at_end(s) THEN NUL ELSE s.source[s.current + 1]

\* match(expected): whether the next character is the expected one
scan_match(s, expected) ==
    ~scan_is_at_end(s) /\ s.source[s.current + 1] = expected

is_digit(c) == c \in Digits
is_alpha(c) == c \in Letters \/ c = "_"
is_alpha_numeric(c) == is_alpha(c) \/ is_digit(c)

\* source[start:current]
Text(s) == Concat(SubSeq(s.source, s.start + 1, s.current))

add_token(s, token_type, literal) ==
    [s EXCEPT !.tokens = Append(@, Token(token_type, Text(s), literal, s.line))]

\* A reporter that raises instead of returning.
scan_error_aborts(s, message) ==
    [s EXCEPT !.errors = Append(@, [line |-> s.line, message |-> message]),
              !.exc = HostException("ScanError", message)]

scan_error(s, message) ==
    [s EXCEPT !.errors = Append(@, [line |-> s.line, message |-> message])]

\* One of the two-character operators: `match('=')` picks the token.
two_char(s, long, short) ==
    IF scan_match(s, "=") THEN add_token(scan_advance(s), long, NilV)
    ELSE add_token(s, short, NilV)

RECURSIVE comment(_)
comment(s) ==
    IF scan_peek(s) # "\n" /\ ~scan_is_at_end(s) THEN comment(scan_advance(s))
    ELSE s

RECURSIVE digits(_)
digits(s) == IF is_digit(scan_peek(s)) THEN digits(scan_advance(s)) ELSE s

\* number(): is_digit is handed the method peek_next, not its result, and
\* comparing a method with a str is a TypeError.
number(s) ==
    Let(digits(s), LAMBDA s1 :
        IF scan_peek(s1) = "."
        THEN [s1 EXCEPT !.exc = HostException("TypeError", "peek_next")]
        ELSE add_token(s1, "NUMBER",
                 NumV(ToFloat(SubSeq(s1.source, s1.start + 1, s1.current)))))

RECURSIVE identifier_chars(_)
identifier_chars(s) ==
    IF is_alpha_numeric(scan_peek(s)) THEN identifier_chars(scan_advance(s))
    ELSE s

identifier(s) ==
    Let(identifier_chars(s), LAMBDA s1 :
        add_token(s1, keywords(Text(s1)), NilV))

RECURSIVE string_chars(_, _)
string_chars(s, opening_quote) ==
    IF scan_peek(s) # opening_quote /\ ~scan_is_at_end(s)
    THEN string_chars(scan_advance(
             IF scan_peek(s) = "\n" THEN [s EXCEPT !.line = @ + 1] ELSE s),
             opening_quote)
    ELSE s

\* A string() that moves past the end of the source when the string is
\* not closed.
string_overruns(s, opening_quote) ==
    Let(scan_advance(string_chars(s, opening_quote)), LAMBDA s1 :
        IF s1.current > Len(s1.source)
        THEN scan_error(s1, "Unterminated string.")
        ELSE add_token(s1, "STRING",
                 StrV(Concat(SubSeq(s1.source, s1.start + 2,
                                    s1.current - 1)))))

string(s, opening_quote) ==
    Let(string_chars(s, opening_quote), LAMBDA s1 :
        IF scan_is_at_end(s1) THEN scan_error(s1, "Unterminated string.")
        ELSE Let(scan_advance(s1), LAMBDA s2 :
             add_token(s2, "STRING",
                 StrV(Concat(SubSeq(s2.source, s2.start + 2,
                                    s2.current - 1))))))

SingleCharType(c) ==
    CASE c = "(" -> "LEFT_PAREN"
      [] c = ")" -> "RIGHT_PAREN"
      [] c = "{" -> "LEFT_BRACE"
      [] c = "}" -> "RIGHT_BRACE"
      [] c = "," -> "COMMA"
      [] c = "." -> "DOT"
      [] c = "-" -> "MINUS"
      [] c = "+" -> "PLUS"
      [] c = ";" -> "SEMICOLON"
      [] c = "*" -> "STAR"

scan_char(c, s) ==
       CASE c \in {"(", ")", "{", "}", ",", ".", "-", "+", ";", "*"} ->
                add_token(s, SingleCharType(c), NilV)
         [] c = "!" -> two_char(s, "BANG_EQUAL", "BANG")
         [] c = "=" -> two_char(s, "EQUAL_EQUAL", "EQUAL")
         [] c = "<" -> two_char(s, "LESS_EQUAL", "LESS")
         [] c = ">" -> two_char(s, "GREATER_EQUAL", "GREATER")
         [] c = "/" -> IF scan_match(s, "/") THEN comment(scan_advance(s))
                       ELSE add_token(s, "SLASH", NilV)
         [] c \in {" ", "\r", "\t"} -> s
         [] c = "\n" -> [s EXCEPT !.line = @ + 1]
         [] c \in {"\"", "'"} -> string(s, c)
         [] OTHER -> IF is_digit(c) THEN number(s)
                     ELSE IF is_alpha(c) THEN identifier(s)
                     ELSE scan_error(s, "Unexpected character: '" \o c \o "'")

\* scan_token(): advance() hands back the character and moves past it.
scan_token(s) == scan_char(s.source[s.current + 1], scan_advance(s))

RECURSIVE scan_loop(_)
scan_loop(s) ==
    IF ~scan_is_at_end(s) /\ s.exc.kind = "none"
    THEN Let(scan_token([s EXCEPT !.start = s.current]), LAMBDA s1 :
             scan_loop([s1 EXCEPT !.steps =
                 Append(@, [from |-> s.current, to |-> s1.current])]))
    ELSE s

scan_tokens(s) ==
    Let(scan_loop(s), LAMBDA s1 :
        IF s1.exc.kind # "none" THEN s1
        ELSE [s1 EXCEPT !.tokens = Append(@, Token("EOF", "", NilV, s1.line))])

-----------------------------------------------------------------------------
(* Lox, the driver (src/lox/lox.py).                                       *)

\* The Interpreter as one record, for the tree walk.
InterpreterState ==
    [envs |-> envs, environment |-> environment, locals |-> locals,
     funs |-> funs, out |-> out, exc |-> NoExc, trace |-> <<>>,
     fuel |-> MaxIter, had_runtime_error |-> had_runtime_error]

\* Lox.run(source, is_repl) on interpreter state st with Lox.had_error = he.
\* Hands back what the call did:
\*   st          the interpreter after it
\*   had_error   Lox.had_error after it
\*   static      the number of errors the scanner and the parser reported
\*   exit        the status sys.exit was called with, 0 when it was not
\*   interpreted whether Interpreter.interpret was invoked
\*   statements  what parse() returned
\*   exc         the exception that left run (st.exc when interpret ran)
run_stop(st, he, static, exc, code) ==
    [st |-> Raise(st, exc), had_error |-> he \/ static > 0,
     static |-> static, exit |-> code, interpreted |-> FALSE,
     statements |-> <<>>]

run_parsed(is_repl, st, he, static, pr) ==
    IF pr.p.exc.kind # "none" THEN run_stop(st, he, static, pr.p.exc, 0)
    ELSE IF ~is_repl /\ (he \/ static > 0)
    THEN run_stop(st, he, static, NoExc, 65)
    ELSE IF ~is_repl /\ st.had_runtime_error
    THEN run_stop(st, he, static, NoExc, 70)
    ELSE [st |-> interpret(pr.node, st), had_error |-> he \/ static > 0,
          static |-> static, exit |-> 0, interpreted |-> TRUE,
          statements |-> pr.node]

run(source, is_repl, st, he) ==
    Let(scan_tokens(Scanner(source)), LAMBDA s :
        IF s.exc.kind # "none" THEN run_stop(st, he, Len(s.errors), s.exc, 0)
        ELSE Let(parse(Parser(s.tokens)), LAMBDA pr :
                 run_parsed(is_repl, st, he,
                            Len(s.errors) + Len(pr.p.errors), pr)))

\* What a Scanner or a Parser driven on its own left behind; see Scan and
\* Parse.
NoFront ==
    [source |-> <<>>, tokens |-> <<>>, errors |-> <<>>, exc |-> NoExc,
     statements |-> <<>>, current |-> 0, syncs |-> <<>>, steps |-> <<>>,
     decls |-> <<>>]

\* The record of a step, kept in `last`: what was run (op, input, and for an
\* expression its operator and operands), what run handed back, and the
\* lines it printed, and the interpreter and Lox.had_error as they were
\* before the step.
Step(op, input, r, v) ==
    [op |-> op, input |-> input, operator |-> "", left |-> NilV, right |-> 0,
     front |-> NoFront,
     static |-> r.static, interpreted |-> r.interpreted,
     n |-> Len(r.statements), trace |-> r.st.trace, exc |-> r.st.exc, v |-> v,
     envs |-> envs, environment |-> environment, out |-> out,
     printed |-> SubSeq(r.st.out, Len(out) + 1, Len(r.st.out)),
     had_error |-> had_error]

NoStep ==
    [op |-> "none", input |-> 0, operator |-> "", left |-> NilV, right |-> 0,
     front |-> NoFront,
     static |-> 0, interpreted |-> FALSE, n |-> 0,
     trace |-> <<>>, exc |-> NoExc, v |-> NilV,
     envs |-> <<>>, environment |-> 0, out |-> <<>>, printed |-> <<>>,
     had_error |-> FALSE]

\* The interpreter's fields after a step that left it in state st.
SetInterpreter(st) ==
    /\ envs' = st.envs
    /\ environment' = st.environment
    /\ funs' = st.funs
    /\ out' = st.out
    /\ had_runtime_error' = st.had_runtime_error

-----------------------------------------------------------------------------
(* The source texts the driver is run on.                                   *)

\* var a = 1; { var a = 2; print a; } print a;
SrcShadowing ==
    <<"v", "a", "r", " ", "a", " ", "=", " ", "1", ";", " ", "{", " ",
      "v", "a", "r", " ", "a", " ", "=", " ", "2", ";", " ", "p", "r",
      "i", "n", "t", " ", "a", ";", " ", "}", " ", "p", "r", "i", "n",
      "t", " ", "a", ";">>

\* print 1; print x; print 2;
SrcUndefinedRead ==
    <<"p", "r", "i", "n", "t", " ", "1", ";", " ", "p", "r", "i", "n",
      "t", " ", "x", ";", " ", "p", "r", "i", "n", "t", " ", "2", ";">>

\* x = 1;
SrcUndefinedAssign ==
    <<"x", " ", "=", " ", "1", ";">>

\* var a = 1; a = 2; print a;
SrcGlobalAssign ==
    <<"v", "a", "r", " ", "a", " ", "=", " ", "1", ";", " ", "a", " ",
      "=", " ", "2", ";", " ", "p", "r", "i", "n", "t", " ", "a", ";">>

\* print ; print 1;
SrcMissingExpression ==
    <<"p", "r", "i", "n", "t", " ", ";", " ", "p", "r", "i", "n", "t",
      " ", "1", ";">>

\* 1 = 2; print 3;
SrcInvalidTarget ==
    <<"1", " ", "=", " ", "2", ";", " ", "p", "r", "i", "n", "t", " ",
      "3", ";">>

\* @ print 1;
SrcBadCharacter ==
    <<"@", " ", "p", "r", "i", "n", "t", " ", "1", ";">>

\* print 1; "a
SrcUnterminatedString ==
    <<"p", "r", "i", "n", "t", " ", "1", ";", " ", "\"", "a">>

\* print 1; { { print -"s"; } } print 3;
SrcNestedError ==
    <<"p", "r", "i", "n", "t", " ", "1", ";", " ", "{", " ", "{", " ",
      "p", "r", "i", "n", "t", " ", "-", "\"", "s", "\"", ";", " ", "}",
      " ", "}", " ", "p", "r", "i", "n", "t", " ", "3", ";">>

\* print false and (1/0);
SrcFalseAnd ==
    <<"p", "r", "i", "n", "t", " ", "f", "a", "l", "s", "e", " ", "a",
      "n", "d", " ", "(", "1", "/", "0", ")", ";">>

\* print null and (1/0);
SrcNullAnd ==
    <<"p", "r", "i", "n", "t", " ", "n", "u", "l", "l", " ", "a", "n",
      "d", " ", "(", "1", "/", "0", ")", ";">>

\* print 1 or (1/0);
SrcOneOr ==
    <<"p", "r", "i", "n", "t", " ", "1", " ", "o", "r", " ", "(", "1",
      "/", "0", ")", ";">>

\* print 0 or "r";
SrcZeroOr ==
    <<"p", "r", "i", "n", "t", " ", "0", " ", "o", "r", " ", "\"", "r",
      "\"", ";">>

\* print 0 / 2; print 6 / 2;
SrcDivide ==
    <<"p", "r", "i", "n", "t", " ", "0", " ", "/", " ", "2", ";", " ",
      "p", "r", "i", "n", "t", " ", "6", " ", "/", " ", "2", ";">>

\* print 0 / 0;
SrcDivideByZero ==
    <<"p", "r", "i", "n", "t", " ", "0", " ", "/", " ", "0", ";">>

\* print 1.5;
SrcDecimal ==
    <<"p", "r", "i", "n", "t", " ", "1", ".", "5", ";">>

\* print 1 + 2; print "x=" + 1;
SrcConcat ==
    <<"p", "r", "i", "n", "t", " ", "1", " ", "+", " ", "2", ";", " ",
      "p", "r", "i", "n", "t", " ", "\"", "x", "=", "\"", " ", "+", " ",
      "1", ";">>

\* for (var i = 0; i < 3; i = i + 1) print i;
SrcForLoop ==
    <<"f", "o", "r", " ", "(", "v", "a", "r", " ", "i", " ", "=", " ",
      "0", ";", " ", "i", " ", "<", " ", "3", ";", " ", "i", " ", "=",
      " ", "i", " ", "+", " ", "1", ")", " ", "p", "r", "i", "n", "t",
      " ", "i", ";">>

Sources ==
    <<SrcShadowing,
      SrcUndefinedRead,
      SrcUndefinedAssign,
      SrcGlobalAssign,
      SrcMissingExpression,
      SrcInvalidTarget,
      SrcBadCharacter,
      SrcUnterminatedString,
      SrcNestedError,
      SrcFalseAnd,
      SrcNullAnd,
      SrcOneOr,
      SrcZeroOr,
      SrcDivide,
      SrcDivideByZero,
      SrcDecimal,
      SrcConcat,
      SrcForLoop>>

-----------------------------------------------------------------------------
(* The programs a host hands to Interpreter.interpret as syntax trees.     *)
(* Nodes 1..6 are the variable references a host may resolve.              *)

Id(name) == Token("IDENTIFIER", name, NilV, 1)
Op(token_type, lexeme) == Token(token_type, lexeme, NilV, 1)
Num(id, n) == Literal(id, NumV(n))
Str(id, s) == Literal(id, StrV(s))
CallOf(id, name, arguments) ==
    Call(id, Variable(id + 1, Id(name)), Op("RIGHT_PAREN", ")"), arguments)

\* var a = 1; { var a = 2; print a; } print a;
PShadowing ==
    <<Var(Id("a"), Num(10, 1)),
      Block(<<Var(Id("a"), Num(11, 2)), PrintStmt(Variable(1, Id("a")))>>),
      PrintStmt(Variable(2, Id("a")))>>

\* print 1; print x; print 2;
PUndefinedRead ==
    <<PrintStmt(Num(12, 1)), PrintStmt(Variable(3, Id("x"))),
      PrintStmt(Num(13, 2))>>

\* x = 1;
PUndefinedAssign == <<Expression(Assign(4, Id("x"), Num(14, 1)))>>

\* var a = 1; a = 2; print a;
PGlobalAssign ==
    <<Var(Id("a"), Num(15, 1)), Expression(Assign(5, Id("a"), Num(16, 2))),
      PrintStmt(Variable(6, Id("a")))>>

\* fun f(p) { print "in f"; }
FunF == Function(Id("f"), <<Id("p")>>, <<PrintStmt(Str(20, "in f"))>>)

\* fun f(p) { print "in f"; } f(); print "after";
PArityMismatch ==
    <<FunF, Expression(CallOf(21, "f", <<>>)), PrintStmt(Str(23, "after"))>>

\* fun f(p) { print "in f"; } f(1); print "after";
PArityMatch ==
    <<FunF, Expression(CallOf(24, "f", <<Num(26, 1)>>)),
      PrintStmt(Str(27, "after"))>>

\* clock(1); print "after";
PNativeArity ==
    <<Expression(CallOf(28, "clock", <<Num(30, 1)>>)),
      PrintStmt(Str(31, "after"))>>

\* "s"();
PNotCallable ==
    <<Expression(Call(32, Str(33, "s"), Op("RIGHT_PAREN", ")"), <<>>))>>

\* fun g() { { { return 7; } } print "unreached"; } print g(); print "after";
PReturnUnwind ==
    <<Function(Id("g"), <<>>,
          <<Block(<<Block(<<Return(Op("RETURN", "return"), Num(34, 7))>>)>>),
            PrintStmt(Str(35, "unreached"))>>),
      PrintStmt(CallOf(36, "g", <<>>)), PrintStmt(Str(38, "after"))>>

\* print 1; { { print -"s"; } } print 3;
PNestedError ==
    <<PrintStmt(Num(39, 1)),
      Block(<<Block(<<PrintStmt(Unary(40, Op("MINUS", "-"), Str(41, "s")))>>)>>),
      PrintStmt(Num(42, 3))>>

\* fun h() { { print -null; } } { h(); } print "after";
PErrorInCall ==
    <<Function(Id("h"), <<>>,
          <<Block(<<PrintStmt(Unary(43, Op("MINUS", "-"),
                                    Literal(44, NilV)))>>)>>),
      Block(<<Expression(CallOf(45, "h", <<>>))>>),
      PrintStmt(Str(47, "after"))>>

\* return 1;
PTopLevelReturn == <<Return(Op("RETURN", "return"), Num(48, 1))>>

\* class C {} print C;
PClass == <<Class(Id("C"), <<>>), PrintStmt(Variable(49, Id("C")))>>

\* while (true) print 1;
PForever == <<While(Literal(50, BoolV(TRUE)), PrintStmt(Num(51, 1)))>>

\* fun w() { while (true) { { return 1; } } } { print w(); }
PLoopReturn ==
    <<Function(Id("w"), <<>>,
          <<While(Literal(52, BoolV(TRUE)),
                  Block(<<Block(<<Return(Op("RETURN", "return"),
                                         Num(53, 1))>>)>>))>>),
      Block(<<PrintStmt(CallOf(54, "w", <<>>))>>)>>

Programs ==
    <<PShadowing, PUndefinedRead, PUndefinedAssign, PGlobalAssign,
      PArityMismatch, PArityMatch, PNativeArity, PNotCallable, PReturnUnwind,
      PNestedError, PErrorInCall, PTopLevelReturn, PClass, PForever,
      PLoopReturn>>

ResolvableIds == {1, 3, 4, 5}

Distances == (0 .. MaxDistance) \cup {NoDistance}

-----------------------------------------------------------------------------
(* The sources a host hands to a Scanner: every string of up to MaxLen     *)
(* characters over an alphabet with a digit, a letter, the dot, the quote, *)
(* the slash, the newline and a character of no token.                     *)

ScanAlphabet == {"1", "a", ".", "\"", "/", "\n", "@"}

ScanSources == UNION {[1 .. k -> ScanAlphabet] : k \in 0 .. MaxLen}

-----------------------------------------------------------------------------
(* The expressions a host hands to Interpreter.evaluate.                   *)

MaxOperand == 2

LeftOperands ==
    {NilV, BoolV(FALSE), BoolV(TRUE), NumV(0), NumV(1), StrV(""), StrV("s")}

\* 1: the literal "r"   2: (1 / 0)   3: clock()
RightOperand(r) ==
    CASE r = 1 -> Str(61, "r")
      [] r = 2 -> Grouping(61, Binary(64, Num(65, 1), Op("SLASH", "/"),
                                      Num(66, 0)))
      [] r = 3 -> CallOf(61, "clock", <<>>)

RightOperands == 1 .. 3

LogicalExpr(left, token_type, r) ==
    Logical(60, Literal(63, left), Op(token_type, token_type), RightOperand(r))

\* The numbers n / d with n and d up to MaxOperand in size.
DivideNumbers ==
    {Rat(n, d) : n \in (-MaxOperand) .. MaxOperand, d \in 1 .. MaxOperand}

DivideOperands == DivideNumbers \cup {StrV("s"), NilV}

DivideExpr(left, right) ==
    Binary(70, Literal(71, left), Op("SLASH", "/"), Literal(72, right))


-----------------------------------------------------------------------------
(* The texts a host hands to a Scanner and a Parser.                       *)

MaxFragments == 2

\* Statements, well formed and not, that a text is made of.
Fragments ==
    <<<<"a", "=", "1", ";">>,
      <<"1", "=", "a", ";">>,
      <<"(", "a", ")", "=", "1", ";">>,
      <<"a", "+", "b", "=", "1", ";">>,
      <<"a", "=", "b", "=", "c", ";">>,
      <<"p", "r", "i", "n", "t", " ", "a", ";">>,
      <<"v", "a", "r", " ", "a", "=", "1", ";">>,
      <<"a", " ", "1", ";">>,
      <<"p", "r", "i", "n", "t", ";">>,
      <<"v", "a", "r", " ", "1">>,
      <<")">>,
      <<"{", "a", " ", "1", "}">>,
      <<"f", "(", ")", ";">>,
      <<"f", "(", "1", ",", "a", ")", ";">>,
      <<"f", "(", ")", "(", ")", ";">>,
      <<"{", "p", "r", "i", "n", "t", " ", "a", ";", "a", "=", "1", ";",
        "}">>,
      <<"p", "r", "i", "n", "t", " ", "f", "a", "l", "s", "e", ";">>>>

\* The fragments that are well-formed statements of the grammar the parser
\* implements, the block apart.
WellFormed == {1, 5, 6, 7}

ParseInputs == UNION {[1 .. k -> DOMAIN Fragments] : k \in 0 .. MaxFragments}

\* The fragments of an input, one after the other, a blank after each.
RECURSIVE ParseSource(_)
ParseSource(input) ==
    IF input = <<>> THEN <<>>
    ELSE Fragments[Head(input)] \o <<" ">> \o ParseSource(Tail(input))

\* The for statements: each clause present or not, the initialiser of
\* either kind, the body a statement or a block.
ForInputs ==
    [initialiser : {"none", "var", "expression"}, condition : BOOLEAN,
     increment : BOOLEAN, body : {"print", "block"}]

ForHead == <<"f", "o", "r", "(">>

ForInitialiser(input) ==
    CASE input.initialiser = "none" -> <<";">>
      [] input.initialiser = "var" ->
             <<"v", "a", "r", " ", "i", "=", "0", ";">>
      [] input.initialiser = "expression" -> <<"i", "=", "0", ";">>

ForCondition(input) ==
    (IF input.condition THEN <<"i", "<", "3">> ELSE <<>>) \o <<";">>

ForIncrement(input) ==
    (IF input.increment THEN <<"i", "=", "i", "+", "1">> ELSE <<>>) \o <<")">>

ForBody(input) ==
    IF input.body = "print" THEN <<"p", "r", "i", "n", "t", " ", "i", ";">>
    ELSE <<"{", "p", "r", "i", "n", "t", " ", "i", ";", "}">>

ForSource(input) ==
    ForHead \o ForInitialiser(input) \o ForCondition(input)
            \o ForIncrement(input) \o ForBody(input)

-----------------------------------------------------------------------------
(* The names and the values a host hands to an Environment.                *)

\* The Environment objects there can be.
EnvRefs == 1 .. MaxEnvs

\* The distances a host hands to get_at and assign_at.
EnvDistances == 0 .. MaxDistance

EnvNames == {"a", "b"}

EnvValues == {NumV(1), NumV(2)}
-----------------------------------------------------------------------------
(* The state machine.  A behaviour is one process: it runs a file          *)
(* (Lox.run_file), sits at the prompt (Lox.run_prompt), or is a host that  *)
(* drives an Interpreter directly, with whole programs ("api") or with     *)
(* single expressions ("expr"), or a host that drives a Scanner ("scan")   *)
(* or a Scanner and a Parser ("parse"), or Environments ("env").           *)

Modes == {"file", "prompt", "api", "expr", "scan", "parse", "env"}

Init ==
    /\ mode \in Modes
    /\ status = "running"
    /\ had_error = FALSE
    /\ had_runtime_error = FALSE
    /\ envs = define_native_functions(NewEnvironment(<<>>, None))
    /\ environment = global_vars
    /\ locals = [x \in {} |-> 0]
    /\ funs = <<>>
    /\ out = <<>>
    /\ last = NoStep
    /\ calls = 0

\* What run hands back, for a step that does not go through run.
Direct(st, statements, interpreted) ==
    [st |-> st, had_error |-> had_error, static |-> 0, exit |-> 0,
     interpreted |-> interpreted, statements |-> statements]

\* Interpreter.resolve(expr, depth), called by a host.
Resolve(id, depth) ==
    /\ mode = "api"
    /\ status = "running"
    /\ calls = 0
    /\ Cardinality(DOMAIN locals \cup {id}) <= MaxResolves
    /\ locals' = resolve(locals, id, depth)
    /\ UNCHANGED <<mode, status, had_error, had_runtime_error, envs,
                   environment, funs, out, last, calls>>

\* Interpreter.interpret(statements), called by a host.  A host exception
\* that interpret lets through ends the process.
Interpret(i) ==
    /\ mode = "api"
    /\ status = "running"
    /\ calls < MaxInterprets
    /\ \E st \in {interpret(Programs[i], InterpreterState)} :
           /\ st.exc.kind # "Diverge"
           /\ SetInterpreter(st)
           /\ last' = Step("interpret", i, Direct(st, Programs[i], TRUE), NilV)
           /\ status' = IF st.exc.kind = "none" THEN "running" ELSE "crashed"
    /\ calls' = calls + 1
    /\ UNCHANGED <<mode, had_error, locals>>

\* Interpreter.evaluate(expr), called by a host.
Evaluate(expr, operator, left, right) ==
    /\ mode = "expr"
    /\ status = "running"
    /\ calls < MaxInterprets
    /\ \E r \in {evaluate(expr, InterpreterState)} :
           /\ SetInterpreter(r.st)
           /\ last' = [Step("evaluate", expr.id, Direct(r.st, <<>>, FALSE), r.v)
                          EXCEPT !.operator = operator, !.left = left,
                                 !.right = right]
    /\ calls' = calls + 1
    /\ UNCHANGED <<mode, status, had_error, locals>>

EvaluateLogical ==
    \E left \in LeftOperands, token_type \in {"OR", "AND"},
       r \in RightOperands :
        Evaluate(LogicalExpr(left, token_type, r), token_type, left, r)

EvaluateDivide ==
    \E left \in DivideOperands, right \in DivideOperands :
        Evaluate(DivideExpr(left, right), "SLASH", left, right)

\* Scanner(source, error_reporter).scan_tokens(), called by a host whose
\* reporter keeps the errors.
Scan(source) ==
    /\ mode = "scan"
    /\ status = "running"
    /\ calls = 0
    /\ \E s \in {scan_tokens(Scanner(source))} :
           last' = [NoStep EXCEPT
                       !.op = "scan",
                       !.exc = s.exc,
                       !.front = [NoFront EXCEPT
                                     !.source = source,
                                     !.tokens = s.tokens,
                                     !.errors = s.errors,
                                     !.exc = s.exc,
                                     !.steps = s.steps]]
    /\ calls' = calls + 1
    /\ UNCHANGED <<mode, status, had_error, had_runtime_error, envs,
                   environment, locals, funs, out>>

\* Parser(Scanner(source).scan_tokens()).parse(), called by a host, as
\* Lox.run does at src/lox/lox.py:20-27.
Parsed(op, input, source) ==
    \E s \in {scan_tokens(Scanner(source))} :
    \E r \in {parse(Parser(s.tokens))} :
        last' = [NoStep EXCEPT
                    !.op = op,
                    !.input = input,
                    !.exc = r.p.exc,
                    !.front = [source |-> source, tokens |-> s.tokens,
                               errors |-> r.p.errors, exc |-> r.p.exc,
                               statements |-> r.node, current |-> r.p.current,
                               syncs |-> r.p.syncs, steps |-> s.steps,
                               decls |-> r.p.decls]]

Parse(input) ==
    /\ mode = "parse"
    /\ status = "running"
    /\ calls = 0
    /\ Parsed("parse", input, ParseSource(input))
    /\ calls' = calls + 1
    /\ UNCHANGED <<mode, status, had_error, had_runtime_error, envs,
                   environment, locals, funs, out>>

\* The same, on a for statement.
ParseFor(input) ==
    /\ mode = "parse"
    /\ status = "running"
    /\ calls = 0
    /\ Parsed("for", input, ForSource(input))
    /\ calls' = calls + 1
    /\ UNCHANGED <<mode, status, had_error, had_runtime_error, envs,
                   environment, locals, funs, out>>

\* The record of a call of an Environment method: its arguments, the heap
\* before it, and what it handed back.
EnvStep(op, input, r) ==
    [NoStep EXCEPT !.op = op, !.input = input, !.envs = envs,
                   !.exc = r.exc, !.v = r.v]

\* Environment(enclosing), called by a host.
EnvNew(enclosing) ==
    /\ mode = "env"
    /\ calls < MaxEnvOps
    /\ Len(envs) < MaxEnvs
    /\ enclosing = None \/ enclosing \in DOMAIN envs
    /\ envs' = NewEnvironment(envs, enclosing)
    /\ last' = EnvStep("Environment", [e |-> enclosing],
                       EnvResult(envs, NoExc, NilV))
    /\ calls' = calls + 1
    /\ UNCHANGED <<mode, status, had_error, had_runtime_error, environment,
                   locals, funs, out>>

\* Environment.define(name, value) on the object e.
EnvDefine(e, name, value) ==
    /\ mode = "env"
    /\ calls < MaxEnvOps
    /\ e \in DOMAIN envs
    /\ envs' = define(envs, e, name, value)
    /\ last' = EnvStep("define", [e |-> e, name |-> name, value |-> value],
                       EnvResult(envs, NoExc, NilV))
    /\ calls' = calls + 1
    /\ UNCHANGED <<mode, status, had_error, had_runtime_error, environment,
                   locals, funs, out>>

\* Environment.get(name) on the object e.
EnvGet(e, name) ==
    /\ mode = "env"
    /\ calls < MaxEnvOps
    /\ e \in DOMAIN envs
    /\ \E r \in {get(envs, e, Id(name))} :
           /\ envs' = r.envs
           /\ last' = EnvStep("get", [e |-> e, name |-> name], r)
    /\ calls' = calls + 1
    /\ UNCHANGED <<mode, status, had_error, had_runtime_error, environment,
                   locals, funs, out>>

\* Environment.assign(name, value) on the object e.
EnvAssign(e, name, value) ==
    /\ mode = "env"
    /\ calls < MaxEnvOps
    /\ e \in DOMAIN envs
    /\ \E r \in {assign(envs, e, Id(name), value)} :
           /\ envs' = r.envs
           /\ last' = EnvStep("assign",
                              [e |-> e, name |-> name, value |-> value], r)
    /\ calls' = calls + 1
    /\ UNCHANGED <<mode, status, had_error, had_runtime_error, environment,
                   locals, funs, out>>

\* Environment.get_at(distance, name) on the object e.
EnvGetAt(e, distance, name) ==
    /\ mode = "env"
    /\ calls < MaxEnvOps
    /\ e \in DOMAIN envs
    /\ \E r \in {get_at(envs, e, distance, name)} :
           /\ envs' = r.envs
           /\ last' = EnvStep("get_at",
                              [e |-> e, distance |-> distance, name |-> name],
                              r)
    /\ calls' = calls + 1
    /\ UNCHANGED <<mode, status, had_error, had_runtime_error, environment,
                   locals, funs, out>>

\* Environment.assign_at(distance, name, value) on the object e.
EnvAssignAt(e, distance, name, value) ==
    /\ mode = "env"
    /\ calls < MaxEnvOps
    /\ e \in DOMAIN envs
    /\ \E r \in {assign_at(envs, e, distance, Id(name), value)} :
           /\ envs' = r.envs
           /\ last' = EnvStep("assign_at",
                              [e |-> e, distance |-> distance, name |-> name,
                               value |-> value], r)
    /\ calls' = calls + 1
    /\ UNCHANGED <<mode, status, had_error, had_runtime_error, environment,
                   locals, funs, out>>

\* The status the process ends with after run_file called run.
run_file_status(r) ==
    IF r.exit = 65 THEN "exit65"
    ELSE IF r.exit = 70 \/ r.st.exc.kind # "none" THEN "exit70"
    ELSE IF r.had_error THEN "exit65"
    ELSE "exit0"

\* Lox.run_file(path), the file holding Sources[i].
RunFile(i) ==
    /\ mode = "file"
    /\ status = "running"
    /\ \E r \in {run(Sources[i], FALSE, InterpreterState, had_error)} :
           /\ r.st.exc.kind # "Diverge"
           /\ SetInterpreter(r.st)
           /\ had_error' = r.had_error
           /\ last' = Step("run", i, r, NilV)
           /\ status' = run_file_status(r)
    /\ calls' = calls + 1
    /\ UNCHANGED <<mode, locals>>

\* One turn of the loop of Lox.run_prompt, the line typed being Sources[i].
\* An exception that leaves run is not caught and ends the process.
RunPrompt(i) ==
    /\ mode = "prompt"
    /\ status = "running"
    /\ calls < MaxLines
    /\ \E r \in {run(Sources[i], TRUE, InterpreterState, had_error)} :
           /\ r.st.exc.kind # "Diverge"
           /\ SetInterpreter(r.st)
           /\ had_error' = IF r.st.exc.kind = "none" THEN FALSE
                           ELSE r.had_error
           /\ last' = Step("run", i, r, NilV)
           /\ status' = IF r.st.exc.kind = "none" THEN "running"
                        ELSE "crashed"
    /\ calls' = calls + 1
    /\ UNCHANGED <<mode, locals>>

\* End of input at the prompt: run_prompt prints and returns.
EndOfInput ==
    /\ mode = "prompt"
    /\ status = "running"
    /\ status' = "exited"
    /\ out' = Append(out, "\nExiting.")
    /\ UNCHANGED <<mode, had_error, had_runtime_error, envs, environment,
                   locals, funs, last, calls>>

Next ==
    \/ \E id \in ResolvableIds, depth \in Distances : Resolve(id, depth)
    \/ \E i \in 1 .. Len(Programs) : Interpret(i)
    \/ EvaluateLogical
    \/ EvaluateDivide
    \/ \E source \in ScanSources : Scan(source)
    \/ \E input \in ParseInputs : Parse(input)
    \/ \E input \in ForInputs : ParseFor(input)
    \/ \E enclosing \in {None} \cup EnvRefs : EnvNew(enclosing)
    \/ \E e \in EnvRefs, name \in EnvNames, value \in EnvValues :
           EnvDefine(e, name, value)
    \/ \E e \in EnvRefs, name \in EnvNames : EnvGet(e, name)
    \/ \E e \in EnvRefs, name \in EnvNames, value \in EnvValues :
           EnvAssign(e, name, value)
    \/ \E e \in EnvRefs, distance \in EnvDistances, name \in EnvNames :
           EnvGetAt(e, distance, name)
    \/ \E e \in EnvRefs, distance \in EnvDistances, name \in EnvNames,
          value \in EnvValues :
           EnvAssignAt(e, distance, name, value)
    \/ \E i \in 1 .. Len(Sources) : RunFile(i)
    \/ \E i \in 1 .. Len(Sources) : RunPrompt(i)
    \/ EndOfInput

Spec == Init /\ [][Next]_vars

-----------------------------------------------------------------------------
(* The properties.  They read the record of the last step: the history of  *)
(* what the tree walk did (last.trace), the exception that left it         *)
(* (last.exc), and the state before the step (last.out, last.envs).        *)

IsRun(source) == last.op = "run" /\ Sources[last.input] = source

IsInterpret(program) == last.op = "interpret" /\ Programs[last.input] = program

\* The positions of the history at which an event of kind ev stands.
Events(ev) == {i \in DOMAIN last.trace : last.trace[i].ev = ev}

\* What the step printed.
Printed == last.printed

\* The bindings of the global environment.
Globals == envs[global_vars].values

\* C1: a read inside a block that redeclares a global name yields the block's
\* binding, and a read after the block the global one: the program
\* `var a = 1; { var a = 2; print a; } print a;` prints 2 then 1, run from a
\* file or at the prompt.
C1_ShadowingPrints2Then1 == IsRun(SrcShadowing) => Printed = <<"2", "1">>

\* C2: reading or assigning a name that was never declared raises the
\* undefined-variable runtime error, carrying the identifier's token and
\* naming the identifier, and creates no binding: `print 1; print x; print 2;`
\* and `x = 1;` both end with that error reported and x still unbound.
C2_UndefinedRaisesRuntimeError ==
    (IsRun(SrcUndefinedRead) \/ IsRun(SrcUndefinedAssign)) =>
        /\ Events("raise") # {}
        /\ Events("report") # {}
        /\ last.exc.kind = "none"
        /\ ~Bound(envs, global_vars, "x")

\* C3: a Variable or Assign expression with a distance in the resolution map
\* goes through get_at / assign_at with that distance, one without goes
\* through the global environment's get / assign; so `var a = 1; a = 2;
\* print a;` with no entry in the map prints 2.
C3_ResolutionMapDispatch ==
    /\ \A i \in Events("get_at") \cup Events("assign_at") :
           /\ last.trace[i].a \in DOMAIN locals
           /\ locals[last.trace[i].a] = last.trace[i].b
    /\ \A i \in Events("get") \cup Events("assign") :
           \/ last.trace[i].a \notin DOMAIN locals
           \/ locals[last.trace[i].a] = NoDistance
    /\ (IsRun(SrcGlobalAssign)
        \/ (IsInterpret(PGlobalAssign) /\ DOMAIN locals = {})) =>
           /\ Printed = <<"2">>
           /\ Globals["a"] = NumV(2)

\* C4: a source for which the scanner or the parser reported an error is
\* never handed to Interpreter.interpret, in batch mode and at the prompt.
C4_StaticErrorNeverInterpreted ==
    (last.op = "run" /\ last.static > 0) => ~last.interpreted

\* The statements interpret started, in the order it started them.
Started == SelectSeq(last.trace, LAMBDA e : e.ev = "stmt")

\* C5: interpret executes the statements in list order; once a statement
\* raises a runtime error nothing more is executed, the error is reported
\* exactly once through the callback, and interpret returns normally.
C5_InterpretStopsAtFirstRuntimeError ==
    last.interpreted =>
        /\ \A i \in DOMAIN Started : Started[i].a = i
        /\ Len(Started) <= last.n
        /\ \A i \in Events("raise") :
               /\ \A j \in DOMAIN last.trace :
                      j > i => last.trace[j].ev \in {"block_exit", "report"}
               /\ Cardinality(Events("report")) = 1
               /\ last.exc.kind = "none"
               /\ had_runtime_error
        /\ Events("raise") = {} => Events("report") = {}
        /\ (last.exc.kind = "none" /\ Events("raise") = {}) =>
               Len(Started) = last.n

\* C5's case: a three-statement program whose second statement raised.
C5_Witness ==
    /\ last.op = "interpret"
    /\ last.n = 3
    /\ Len(Started) = 2
    /\ Events("raise") # {}
    /\ Events("report") # {}
    /\ status = "running"

\* C6: when the argument count differs from the callee's arity, the callee's
\* call is never invoked and nothing of its body runs: a call happens only
\* right after an arity check that found the counts equal, and after a
\* failed check nothing is evaluated or executed and the error is in flight.
C6_ArityCheckPrecedesCall ==
    /\ \A i \in Events("arity") :
           last.trace[i].a # last.trace[i].b =>
               /\ \A j \in DOMAIN last.trace :
                      j > i => last.trace[j].ev = "block_exit"
               /\ last.exc.kind = "RuntimeError"
    /\ \A j \in Events("call") :
           /\ j > 1
           /\ last.trace[j - 1].ev = "arity"
           /\ last.trace[j - 1].a = last.trace[j - 1].b
           /\ last.trace[j - 1].b = last.trace[j].b

\* C6's case: the one-parameter function f was called with no argument, and
\* its body printed nothing.
C6_Witness ==
    /\ IsInterpret(PArityMismatch)
    /\ \E i \in Events("arity") : last.trace[i].a = 1 /\ last.trace[i].b = 0
    /\ Printed = <<>>

\* C7: an arity mismatch is a runtime error like the others: interpret
\* catches it and reports it through the callback, it does not leave
\* interpret as a host exception.
C7_ArityMismatchIsReported ==
    \A i \in Events("arity") :
        last.trace[i].a # last.trace[i].b =>
            /\ last.exc.kind = "none"
            /\ Events("report") # {}

\* C8: execute_block leaves self.environment as it found it on every way
\* out, at any depth, so that after every interpret call the interpreter's
\* environment is the global one.
C8_BlockRestoresEnvironment ==
    /\ \A i \in Events("block_exit") : last.trace[i].a = last.trace[i].b
    /\ Cardinality(Events("block_enter")) = Cardinality(Events("block_exit"))
    /\ environment = global_vars

\* C8's case: a runtime error raised three blocks deep (a block in a
\* function body called from a block) has left all three.
C8_Witness ==
    /\ last.op = "interpret"
    /\ \E i \in Events("raise") :
           Cardinality({j \in Events("block_exit") : j > i}) >= 3
    /\ Cardinality(Events("block_enter")) >= 3

\* The evaluations of the right operand of the Logical expression.
RightEvaluations ==
    {i \in Events("eval") : last.trace[i].a = RightOperand(last.right).id}

\* C9: `or` with a truthy left operand and `and` with a falsey one never
\* evaluate the right operand and give the left operand's value; otherwise
\* the right operand is evaluated once and its value, unconverted, is the
\* result.
C9_LogicalShortCircuit ==
    /\ (last.op = "evaluate" /\ last.operator \in {"OR", "AND"}) =>
           IF (last.operator = "OR") = is_truthy(last.left)
           THEN /\ RightEvaluations = {}
                /\ Events("raise") = {}
                /\ Events("call") = {}
                /\ last.exc.kind = "none"
                /\ last.v = last.left
           ELSE /\ Cardinality(RightEvaluations) = 1
                /\ last.right = 1 => last.exc.kind = "none" /\ last.v = StrV("r")
                /\ last.right = 2 => /\ last.exc.kind = "RuntimeException"
                                     /\ last.exc.msg = "Cannot divide by zero."
                /\ last.right = 3 => /\ Cardinality(Events("call")) = 1
                                     /\ last.exc.kind = "none"
                                     /\ last.v.t = "num"
    /\ IsRun(SrcNullAnd) => Printed = <<"null">>
    /\ IsRun(SrcOneOr) => Printed = <<"1">>
    /\ IsRun(SrcZeroOr) => Printed = <<"r">>
    /\ IsRun(SrcFalseAnd) => Events("raise") = {}

\* C9's case: false and (1 / 0) gave false.
C9_Witness ==
    /\ last.op = "evaluate"
    /\ last.operator = "AND"
    /\ last.left = BoolV(FALSE)
    /\ last.right = 2
    /\ last.v = BoolV(FALSE)
    /\ Events("raise") = {}

\* C10: on two numbers `/` raises the divide-by-zero runtime error exactly
\* when the right operand is zero, and gives the quotient for every other
\* divisor.
C10_DivideByZeroIffZeroDivisor ==
    (/\ last.op = "evaluate"
     /\ last.operator = "SLASH"
     /\ IsFloat(last.left)
     /\ IsFloat(last.right)) =>
        /\ (last.exc.kind = "RuntimeException"
            /\ last.exc.msg = "Cannot divide by zero.") <=> last.right.n = 0
        /\ last.right.n # 0 =>
               /\ last.exc.kind = "none"
               /\ last.v = NumDiv(last.left, last.right)

\* C11: the variable of a `for` initializer is visible to the condition, the
\* increment and the body: `for (var i = 0; i < 3; i = i + 1) print i;`
\* prints 0, 1, 2 and ends without an error.
C11_ForLoopPrints012 ==
    IsRun(SrcForLoop) =>
        /\ Printed = <<"0", "1", "2">>
        /\ last.exc.kind = "none"
        /\ Events("report") = {}

-----------------------------------------------------------------------------
(* Properties of the Scanner, read from the record of a Scan step.         *)

Scanned == last.op = "scan"

\* The positions of the source that hold character c.
Positions(source, c) == {i \in DOMAIN source : source[i] = c}

\* The line a Scanner is on once it is past the first i characters.
LineAfter(source, i) ==
    1 + Cardinality({j \in Positions(source, "\n") : j <= i})

EOFTokens(tokens) == {i \in DOMAIN tokens : tokens[i].token_type = "EOF"}

\* The token list ends with its only EOF token, on the source's last line.
EndsWithEOF(source, tokens) ==
    /\ tokens # <<>>
    /\ EOFTokens(tokens) = {Len(tokens)}
    /\ tokens[Len(tokens)].line = LineAfter(source, Len(source))

\* C12: for every source scan_tokens returns a token list, in which exactly
\* one token is EOF, that token is the last, and its line is 1 plus the
\* number of newlines of the source.
C12_ScanEndsWithOneEOF ==
    Scanned =>
        /\ last.front.exc.kind = "none"
        /\ EndsWithEOF(last.front.source, last.front.tokens)

\* The source with every character of no token replaced by a blank.
Blanked(source) ==
    [i \in DOMAIN source |-> IF source[i] = "@" THEN " " ELSE source[i]]

\* Whether a comment starts somewhere in the source.
HasComment(source) ==
    \E i \in DOMAIN source :
        i < Len(source) /\ source[i] = "/" /\ source[i + 1] = "/"

\* The k-th smallest element of a set of numbers.
Nth(S, k) == CHOOSE p \in S : Cardinality({q \in S : q <= p}) = k

\* The reports owed for the characters of no token, one each, in order.
UnexpectedReports(source, errors) ==
    /\ Len(errors) = Cardinality(Positions(source, "@"))
    /\ \A k \in DOMAIN errors :
           errors[k] =
               [line |-> LineAfter(source, Nth(Positions(source, "@"), k)),
                message |-> "Unexpected character: '@'"]

\* C13, unexpected characters (sources without strings and comments): the
\* scan reports each one once with its line, and otherwise goes exactly as
\* the scan of the source in which they are blanks.
SkipsUnexpected(f) ==
    (Positions(f.source, "\"") = {} /\ ~HasComment(f.source)) =>
        Let(scan_tokens(Scanner(Blanked(f.source))), LAMBDA c :
            /\ f.exc = c.exc
            /\ f.exc.kind = "none" =>
                   /\ f.tokens = c.tokens
                   /\ UnexpectedReports(f.source, f.errors)
                   /\ EndsWithEOF(f.source, f.tokens))

\* C13, unterminated string (sources whose only quote stands at q, outside a
\* comment): the scan goes as the scan of the text before the quote, then
\* reports once, for the last line, and appends EOF; there is no STRING.
DropsUnterminated(f, q) ==
    (Positions(f.source, "\"") = {q}
     /\ ~HasComment(SubSeq(f.source, 1, q - 1))) =>
        Let(scan_tokens(Scanner(SubSeq(f.source, 1, q - 1))), LAMBDA c :
            c.exc.kind = "none" =>
                /\ f.exc.kind = "none"
                /\ f.errors = Append(c.errors,
                       [line |-> LineAfter(f.source, Len(f.source)),
                        message |-> "Unterminated string."])
                /\ f.tokens = Append(SubSeq(c.tokens, 1, Len(c.tokens) - 1),
                       Token("EOF", "", NilV,
                             LineAfter(f.source, Len(f.source))))
                /\ \A i \in DOMAIN f.tokens :
                       f.tokens[i].token_type # "STRING")

\* C13: a lexical error never stops the scan: an unexpected character is
\* reported once with its line and skipped, an unterminated string is
\* reported once for the line where the scan stopped and gives no token,
\* and the tokens around the bad input and the final EOF are still emitted.
C13_ScanSurvivesLexicalErrors ==
    Scanned =>
        /\ SkipsUnexpected(last.front)
        /\ \A q \in DOMAIN last.front.source : DropsUnterminated(last.front, q)
        /\ last.front.errors # <<>> /\ last.front.exc.kind = "none" =>
               EndsWithEOF(last.front.source, last.front.tokens)

\* C13's case: an unexpected character on the second line, between two
\* identifiers, was reported and both identifiers were emitted.
C13_Witness ==
    /\ Scanned
    /\ last.front.source = <<"a", "\n", "@", "a">>
    /\ last.front.errors =
           <<[line |-> 2, message |-> "Unexpected character: '@'"]>>
    /\ Len(last.front.tokens) = 3
    /\ last.front.tokens[2].token_type = "IDENTIFIER"
    /\ last.front.tokens[3].token_type = "EOF"

\* The token types and the lexemes of a token list.
TokenTypes(tokens) == [i \in DOMAIN tokens |-> tokens[i].token_type]
Lexemes(tokens) == [i \in DOMAIN tokens |-> tokens[i].lexeme]

\* A run of digits, then perhaps one dot, then perhaps more digits.
IsNumberText(source) ==
    /\ source # <<>>
    /\ source[1] = "1"
    /\ \A i \in DOMAIN source : source[i] \in {"1", "."}
    /\ Cardinality(Positions(source, ".")) <= 1

\* C14: a run of digits with an optional fraction is scanned as exactly one
\* NUMBER token whose lexeme is the whole text; a dot that no digit follows
\* ends the number and is a DOT token of its own; the scan completes.
C14_NumberIsOneToken ==
    (Scanned /\ IsNumberText(last.front.source)) =>
        Let(last.front, LAMBDA f :
            /\ f.exc.kind = "none"
            /\ f.errors = <<>>
            /\ IF f.source[Len(f.source)] = "."
               THEN /\ TokenTypes(f.tokens) = <<"NUMBER", "DOT", "EOF">>
                    /\ Lexemes(f.tokens) =
                           <<Concat(SubSeq(f.source, 1, Len(f.source) - 1)),
                             ".", "">>
               ELSE /\ TokenTypes(f.tokens) = <<"NUMBER", "EOF">>
                    /\ Lexemes(f.tokens) = <<Concat(f.source), "">>
            /\ Positions(f.source, ".") = {} =>
                   f.tokens[1].literal = NumV(ToFloat(f.source)))

\* The part of C14 the code does satisfy: a run of digits with no dot.
DigitRunIsOneToken ==
    (Scanned /\ IsNumberText(last.front.source)
             /\ Positions(last.front.source, ".") = {}) =>
        /\ last.front.exc.kind = "none"
        /\ TokenTypes(last.front.tokens) = <<"NUMBER", "EOF">>
        /\ last.front.tokens[1].lexeme = Concat(last.front.source)
        /\ last.front.tokens[1].literal = NumV(ToFloat(last.front.source))

\* Every number text with a dot aborts the scan.
DottedNumberAborts ==
    (Scanned /\ IsNumberText(last.front.source)
             /\ Positions(last.front.source, ".") # {}) =>
        last.front.exc.kind = "TypeError"

-----------------------------------------------------------------------------
(* The parser, driven on its own.                                          *)

ParsedText == last.op = "parse"

\* The fragments with a call: f();  f(1,a);  f()();
CallFragments == {13, 14, 15}

\* C15: a primary followed by parenthesised argument lists is accepted
\* without a parse error and parsed into a Call node (nested, for f()()).
C15_CallsAreParsed ==
    (ParsedText /\ Len(last.input) = 1 /\ last.input[1] \in CallFragments) =>
        /\ last.front.exc.kind = "none"
        /\ last.front.errors = <<>>
        /\ Len(last.front.statements) = 1
        /\ last.front.statements[1].k = "Expression"
        /\ last.front.statements[1].expression.k = "Call"

\* What the parser does with a call instead: it stops at the parenthesis
\* after the callee, reports it, and gives no statement.
CallIsRejected ==
    (ParsedText /\ Len(last.input) = 1 /\ last.input[1] \in CallFragments) =>
        /\ Len(last.front.errors) = 1
        /\ last.front.errors[1].token = last.front.tokens[2]
        /\ last.front.errors[1].message = "Expect ';' after expression."
        /\ last.front.statements = <<NoneNode>>

ParsedFor == last.op = "for"

\* The number of tokens of a text, EOF apart.
TokenCount(text) == Len(scan_tokens(Scanner(text)).tokens) - 1

\* A parser on the same tokens, about to read token k + 1.
ParserAt(tokens, k) == [Parser(tokens) EXCEPT !.current = k]

\* The clauses and the body of the for statement, each parsed from the
\* place in the text where it stands.
ClauseInitialiser(tokens, i) ==
    IF i.initialiser = "var"
    THEN var_declaration(ParserAt(tokens, TokenCount(ForHead) + 1)).node
    ELSE expression_statement(ParserAt(tokens, TokenCount(ForHead))).node

ClauseCondition(tokens, i) ==
    expression(ParserAt(tokens,
        TokenCount(ForHead \o ForInitialiser(i)))).node

ClauseIncrement(tokens, i) ==
    expression(ParserAt(tokens,
        TokenCount(ForHead \o ForInitialiser(i) \o ForCondition(i)))).node

ClauseBody(tokens, i) ==
    statement(ParserAt(tokens,
        TokenCount(ForHead \o ForInitialiser(i) \o ForCondition(i)
                           \o ForIncrement(i)))).node

\* The While in what for_statement returned.
LoopOf(s, i) == IF i.initialiser = "none" THEN s ELSE s.statements[2]

\* C16: for (init; cond; incr) body parses to While(cond, body'), where
\* body' is body without an increment and Block([body, Expression(incr)])
\* with one, and cond is Literal(true) when omitted; the While is wrapped in
\* Block([init, While]) exactly when there is an initialiser.
C16_ForDesugaring ==
    ParsedFor =>
        Let(last.front, LAMBDA f :
            /\ f.exc.kind = "none"
            /\ f.errors = <<>>
            /\ Len(f.statements) = 1
            /\ f.current = Len(f.tokens) - 1
            /\ IF last.input.initialiser = "none"
               THEN f.statements[1].k = "While"
               ELSE /\ f.statements[1].k = "Block"
                    /\ Len(f.statements[1].statements) = 2
                    /\ f.statements[1].statements[1] =
                           ClauseInitialiser(f.tokens, last.input)
                    /\ f.statements[1].statements[1].k =
                           (IF last.input.initialiser = "var" THEN "Var"
                            ELSE "Expression")
            /\ Let(LoopOf(f.statements[1], last.input), LAMBDA loop :
                   /\ loop.k = "While"
                   /\ IF last.input.condition
                      THEN /\ loop.condition =
                                  ClauseCondition(f.tokens, last.input)
                           /\ loop.condition.k = "Binary"
                      ELSE /\ loop.condition.k = "Literal"
                           /\ loop.condition.value = BoolV(TRUE)
                   /\ IF last.input.increment
                      THEN /\ loop.body.k = "Block"
                           /\ loop.body.statements =
                                  <<ClauseBody(f.tokens, last.input),
                                    Expression(ClauseIncrement(f.tokens,
                                                               last.input))>>
                           /\ loop.body.statements[2].expression.k = "Assign"
                      ELSE loop.body = ClauseBody(f.tokens, last.input)
                   /\ ClauseBody(f.tokens, last.input).k =
                          (IF last.input.body = "print" THEN "Print"
                           ELSE "Block")))

\* C16's case: for (var i=0; i<3; i=i+1) print i; was parsed, to a Block
\* of the declaration and a While whose body is a Block ending with the
\* increment.
C16_Witness ==
    /\ ParsedFor
    /\ last.input = [initialiser |-> "var", condition |-> TRUE,
                     increment |-> TRUE, body |-> "print"]
    /\ last.front.statements[1].k = "Block"
    /\ last.front.statements[1].statements[1].k = "Var"
    /\ last.front.statements[1].statements[2].k = "While"
    /\ last.front.statements[1].statements[2].body.k = "Block"
    /\ last.front.statements[1].statements[2].body.statements[1].k = "Print"

\* The fragments that assign to what is no variable: 1=a;  (a)=1;  a+b=1;
InvalidTargets == {2, 3, 4}

\* The tokens of kind EQUAL among the first n tokens.
EqualTokens(tokens, n) ==
    {j \in 1 .. n : tokens[j].token_type = "EQUAL"}

\* The parse of `X = Y;`, of n tokens, with X no variable: one report, at the `=`, nothing
\* raised, and the statement is X alone.
TargetIsRejected(f, n) ==
    /\ f.exc.kind = "none"
    /\ f.syncs = <<>>
    /\ Len(f.errors) = 1
    /\ f.errors[1].message = "Invalid assignment target."
    /\ \E j \in EqualTokens(f.tokens, n) :
           /\ EqualTokens(f.tokens, n) = {j}
           /\ f.errors[1].token = f.tokens[j]
           /\ f.statements[1] =
                  Expression(logical_or(ParserAt(f.tokens, 0)).node)
           /\ logical_or(ParserAt(f.tokens, 0)).p.current = j - 1
    /\ f.statements[1].expression.k \in {"Literal", "Grouping", "Binary"}

\* C17: when the left side of `=` is no Variable, the parser reports one
\* "Invalid assignment target." at the `=`, raises nothing, does not
\* synchronise, reads on to the end of the statement and returns the left
\* side alone; when it is a Variable it builds an Assign, and a = b = c is
\* a = (b = c).
C17_InvalidAssignmentTarget ==
    (ParsedText /\ last.input # <<>>) =>
        Let(last.front, LAMBDA f :
            /\ (last.input[1] \in InvalidTargets /\ Len(last.input) = 1) =>
                   /\ TargetIsRejected(f,
                          TokenCount(Fragments[last.input[1]]))
                   /\ Len(f.statements) = 1
                   /\ f.current = Len(f.tokens) - 1
            /\ (last.input[1] \in InvalidTargets /\ Len(last.input) = 2
                /\ last.input[2] \in WellFormed) =>
                   /\ TargetIsRejected(f,
                          TokenCount(Fragments[last.input[1]]))
                   /\ Len(f.statements) = 2
                   /\ f.statements[2] # NoneNode
                   /\ f.current = Len(f.tokens) - 1
            /\ last.input = <<1>> =>
                   /\ f.errors = <<>>
                   /\ f.statements =
                          <<Expression(Assign(1, f.tokens[1],
                                Literal(3, NumV(1))))>>
            /\ last.input = <<5>> =>
                   /\ f.errors = <<>>
                   /\ f.statements =
                          <<Expression(Assign(1, f.tokens[1],
                                Assign(3, f.tokens[3],
                                    Variable(5, f.tokens[5]))))>>)

\* C17's case: (a)=1; was parsed, and then print a;
C17_Witness ==
    /\ ParsedText
    /\ last.input = <<3, 6>>
    /\ Len(last.front.errors) = 1
    /\ last.front.errors[1].token.token_type = "EQUAL"
    /\ last.front.statements[1].k = "Expression"
    /\ last.front.statements[1].expression.k = "Grouping"
    /\ last.front.statements[2].k = "Print"

\* The fragments that are malformed statements:
\*   a 1;   print;   var 1   )   {a 1}
Malformed == {8, 9, 10, 11, 12}

\* The malformed fragments that are not blocks.
MalformedFlat == Malformed \ {12}

\* The fragments of an input that are in a set.
Among(input, S) == {k \in DOMAIN input : input[k] \in S}

\* The reports that came with a ParseError.
Raised(errors) ==
    {k \in DOMAIN errors : errors[k].message # "Invalid assignment target."}

\* Whether a parser on these tokens, having read k of them, stands at a
\* statement boundary: just after a `;`, before a keyword that starts a
\* statement, or at EOF.
AtBoundary(tokens, k) ==
    \/ tokens[k + 1].token_type = "EOF"
    \/ k > 0 /\ tokens[k].token_type = "SEMICOLON"
    \/ tokens[k + 1].token_type \in
           {"CLASS", "FUN", "VAR", "FOR", "IF", "WHILE", "PRINT", "RETURN"}

\* Whether the boundary after the malformed fragment m stands before the
\* fragment w that follows it.
BoundaryBefore(m, w) ==
    \/ Fragments[m][Len(Fragments[m])] = ";"
    \/ Fragments[w][1] \in {"p", "v"}

\* Every raised error is reported once and followed by one synchronise,
\* which discards at least one token unless at EOF and stops at a boundary.
SynchroniseStopsAtBoundary(f) ==
    /\ f.exc.kind # "ParseError"
    /\ Cardinality(Raised(f.errors)) = Len(f.syncs)
    /\ \A k \in DOMAIN f.syncs :
           /\ AtBoundary(f.tokens, f.syncs[k].to)
           /\ f.syncs[k].to > f.syncs[k].from
                  \/ f.tokens[f.syncs[k].from + 1].token_type = "EOF"
           /\ \A j \in (f.syncs[k].from + 1) .. (f.syncs[k].to - 1) :
                  ~AtBoundary(f.tokens, j)

\* One malformed statement among well-formed ones gives one diagnostic.
OneDiagnostic(input, f, M) ==
    (Cardinality(Among(input, M)) = 1
     /\ Among(input, M) \cup Among(input, WellFormed) = DOMAIN input) =>
        Len(f.errors) = 1

\* A well-formed statement that follows the boundary after a malformed one
\* is among the statements parse returns.
LaterStatementParsed(input, f, M) ==
    (Len(input) = 2 /\ input[1] \in M /\ input[2] \in WellFormed
     /\ BoundaryBefore(input[1], input[2])) =>
        /\ Len(f.statements) = 2
        /\ f.statements[1] = NoneNode
        /\ f.statements[2] # NoneNode
        /\ f.statements[2].k \in {"Expression", "Print", "Var"}

\* C18: a parse error raised in declaration is reported once; synchronise
\* then discards tokens up to a statement boundary, where parsing resumes;
\* so one malformed statement gives one diagnostic, and the well-formed
\* statements after the boundary are parsed.
C18_OneDiagnosticPerMalformedStatement ==
    ParsedText =>
        /\ SynchroniseStopsAtBoundary(last.front)
        /\ OneDiagnostic(last.input, last.front, Malformed)
        /\ LaterStatementParsed(last.input, last.front, Malformed)

\* What holds of C18: the boundary at which synchronise stops, for every
\* text, and the rest for the texts without a block.
RecoveryOutsideBlocks ==
    ParsedText =>
        /\ SynchroniseStopsAtBoundary(last.front)
        /\ OneDiagnostic(last.input, last.front, MalformedFlat)
        /\ LaterStatementParsed(last.input, last.front, MalformedFlat)

-----------------------------------------------------------------------------
(* Environments, driven on their own.  last.envs is the heap before the    *)
(* call, envs the heap after it.                                           *)

\* Whether the heaps h and g differ at most in what name is bound to in
\* the environment e.
SameBut(h, g, e, name) ==
    /\ DOMAIN h = DOMAIN g
    /\ \A x \in DOMAIN h :
           /\ h[x].enclosing = g[x].enclosing
           /\ \A n \in (DOMAIN h[x].values \cup DOMAIN g[x].values)
                       \ (IF x = e THEN {name} ELSE {}) :
                  /\ n \in DOMAIN h[x].values
                  /\ n \in DOMAIN g[x].values
                  /\ h[x].values[n] = g[x].values[n]

\* C19: define binds the name to the value in the environment it is called
\* on, whether or not the name was bound there or further out; it changes
\* nothing else, in no environment, and it never fails.
C19_DefineActsOnCurrentOnly ==
    last.op = "define" =>
        /\ last.exc.kind = "none"
        /\ last.input.name \in DOMAIN envs[last.input.e].values
        /\ envs[last.input.e].values[last.input.name] = last.input.value
        /\ SameBut(last.envs, envs, last.input.e, last.input.name)

\* C19's case: the name was defined in an environment whose enclosing one
\* binds it to another value, and still does.
C19_Witness ==
    /\ last.op = "define"
    /\ last.envs[last.input.e].enclosing # None
    /\ last.input.name \notin DOMAIN last.envs[last.input.e].values
    /\ last.input.name \in
           DOMAIN envs[envs[last.input.e].enclosing].values
    /\ envs[envs[last.input.e].enclosing].values[last.input.name]
           # last.input.value
    /\ envs[last.input.e].values[last.input.name] = last.input.value

\* The environments from e outward, e first.
RECURSIVE Chain(_, _)
Chain(h, e) == IF e = None THEN <<>> ELSE <<e>> \o Chain(h, h[e].enclosing)

\* The places in the chain of e where the name is bound.
Binders(h, e, name) ==
    {k \in DOMAIN Chain(h, e) : name \in DOMAIN h[Chain(h, e)[k]].values}

\* The nearest environment of the chain of e that binds the name.
Nearest(h, e, name) ==
    Chain(h, e)[CHOOSE k \in Binders(h, e, name) :
                    \A j \in Binders(h, e, name) : k <= j]

GetFromEnclosing ==
    /\ last.op = "get"
    /\ last.exc.kind = "none"
    /\ last.input.name \notin DOMAIN last.envs[last.input.e].values

UndefinedRaised ==
    /\ last.op \in {"get", "assign"}
    /\ last.exc.kind = "RuntimeException"
    /\ last.envs[last.input.e].enclosing # None

\* Whether following d enclosing links from e ends at an environment.
HasAncestor(h, e, d) == d < Len(Chain(h, e))

\* The environment d enclosing links out from e.
AncestorOf(h, e, d) == Chain(h, e)[d + 1]

\* C21: get_at and assign_at act on the environment d enclosing links out
\* from the receiver, the receiver itself for d = 0: get_at returns what
\* that environment binds the name to and fails when it does not bind it,
\* whatever the environments inside or outside of it bind; assign_at writes
\* the binding of that environment and changes nothing else.
C21_AtDistanceActsOnAncestor ==
    (last.op \in {"get_at", "assign_at"}
     /\ HasAncestor(last.envs, last.input.e, last.input.distance)) =>
        Let(AncestorOf(last.envs, last.input.e, last.input.distance),
            LAMBDA t :
            /\ last.op = "get_at" =>
                   /\ envs = last.envs
                   /\ IF last.input.name \in DOMAIN last.envs[t].values
                      THEN /\ last.exc.kind = "none"
                           /\ last.v = last.envs[t].values[last.input.name]
                      ELSE last.exc.kind = "KeyError"
            /\ last.op = "assign_at" =>
                   /\ last.exc.kind = "none"
                   /\ last.input.name \in DOMAIN envs[t].values
                   /\ envs[t].values[last.input.name] = last.input.value
                   /\ SameBut(last.envs, envs, t, last.input.name))

\* C21's case: assign_at with distance 1 wrote the enclosing environment
\* although the receiver binds the name too, and the receiver's binding is
\* as it was.
C21_Witness ==
    /\ last.op = "assign_at"
    /\ last.input.distance = 1
    /\ HasAncestor(last.envs, last.input.e, 1)
    /\ last.input.name \in DOMAIN last.envs[last.input.e].values
    /\ envs[last.input.e].values[last.input.name] # last.input.value
    /\ envs[AncestorOf(envs, last.input.e, 1)].values[last.input.name]
           = last.input.value
    /\ envs # last.envs

\* C21's other cases: get_at did not fall back to the enclosing
\* environment, nor to the receiver.
NoFallbackOutward ==
    /\ last.op = "get_at"
    /\ last.input.distance = 0
    /\ last.exc.kind = "KeyError"
    /\ Binders(last.envs, last.input.e, last.input.name) # {}

NoFallbackInward ==
    /\ last.op = "get_at"
    /\ last.input.distance = 1
    /\ last.exc.kind = "KeyError"
    /\ last.input.name \in DOMAIN last.envs[last.input.e].values

\* A distance beyond the chain is a failure of the host language, and the
\* heap is as it was.
BeyondTheChain ==
    (last.op \in {"get_at", "assign_at"}
     /\ ~HasAncestor(last.envs, last.input.e, last.input.distance)) =>
        /\ last.exc.kind = "AttributeError"
        /\ envs = last.envs

\* The names each environment of a heap binds.
BoundNames(h) == [x \in DOMAIN h |-> DOMAIN h[x].values]

\* C22: assignment is never a declaration: after assign or assign_at every
\* environment binds the names it bound before, and no others.
C22_AssignNeverDeclares ==
    last.op \in {"assign", "assign_at"} =>
        BoundNames(envs) = BoundNames(last.envs)

\* The half of C22 that holds: assign never binds a new name, and a name
\* appears in an environment only by define or assign_at on it.
OnlyAssignAtDeclares ==
    /\ last.op \in {"assign", "get", "get_at"} =>
           BoundNames(envs) = BoundNames(last.envs)
    /\ last.op = "define" =>
           \A x \in DOMAIN envs :
               DOMAIN envs[x].values \ DOMAIN last.envs[x].values
                   \subseteq (IF x = last.input.e THEN {last.input.name}
                              ELSE {})

\* assign_at on an environment that does not bind the name binds it.
AssignAtDeclares ==
    (last.op = "assign_at"
     /\ HasAncestor(last.envs, last.input.e, last.input.distance)) =>
        last.input.name \in
            DOMAIN envs[AncestorOf(last.envs, last.input.e,
                                   last.input.distance)].values

-----------------------------------------------------------------------------
(* Progress of the scanner and of the parser.                              *)

\* The calls of scan_token follow one another from the start of the
\* source; each begins before the end of the source, moves `current`
\* forward and leaves it within the source.
ScanProgress(source, steps) ==
    /\ (steps = <<>>) <=> (source = <<>>)
    /\ \A k \in DOMAIN steps :
           /\ steps[k].from = (IF k = 1 THEN 0 ELSE steps[k - 1].to)
           /\ steps[k].from < Len(source)
           /\ steps[k].to > steps[k].from
           /\ steps[k].to <= Len(source)

\* C23: every call of scan_token that scan_tokens makes moves `current`
\* forward by at least one character and never past the end of the source;
\* scan_tokens ends, and when it returns the whole source was consumed.
C23_ScannerProgress ==
    Scanned =>
        /\ ScanProgress(last.front.source, last.front.steps)
        /\ Len(last.front.steps) <= Len(last.front.source)
        /\ (last.front.exc.kind = "none" /\ last.front.source # <<>>) =>
               last.front.steps[Len(last.front.steps)].to
                   = Len(last.front.source)

\* C23's case: a source that ends inside a string was scanned in two calls
\* of scan_token, the second one running to the end of the source.
C23_Witness ==
    /\ Scanned
    /\ last.front.source = <<"a", "\"", "1", "\n">>
    /\ last.front.steps = <<[from |-> 0, to |-> 1], [from |-> 1, to |-> 4]>>
    /\ last.front.exc.kind = "none"

\* C23's other cases: sources that end inside a comment, a number and an
\* identifier.
EndsInsideComment ==
    /\ Scanned
    /\ last.front.source = <<"/", "/", "a">>
    /\ last.front.steps = <<[from |-> 0, to |-> 3]>>

EndsInsideNumber ==
    /\ Scanned
    /\ last.front.source = <<"a", "\n", "1", "1">>
    /\ last.front.steps[3] = [from |-> 2, to |-> 4]

EndsInsideIdentifier ==
    /\ Scanned
    /\ last.front.source = <<"1", "\n", "a", "a">>
    /\ last.front.steps[3] = [from |-> 2, to |-> 4]

ParsedAny == last.op \in {"parse", "for"}

\* The calls of declaration that parse made, in order.
ByParse(decls) == SelectSeq(decls, LAMBDA c : c.by = "parse")

\* The place of the EOF token, as a value of `current`.
EOFIndex(tokens) == Len(tokens) - 1

\* Every call of declaration consumed a token and stopped at or before EOF;
\* the calls parse made follow one another from the first token; a call that
\* block made lies inside a call that ended after it.
ParseProgress(tokens, decls) ==
    /\ \A k \in DOMAIN decls :
           /\ decls[k].to > decls[k].from
           /\ decls[k].to <= EOFIndex(tokens)
           /\ decls[k].by = "block" =>
                  \E j \in DOMAIN decls :
                      /\ j > k
                      /\ decls[j].from < decls[k].from
                      /\ decls[k].to <= decls[j].to
    /\ \A k \in DOMAIN ByParse(decls) :
           ByParse(decls)[k].from =
               (IF k = 1 THEN 0 ELSE ByParse(decls)[k - 1].to)

\* The progress of the parser: each call of declaration, by parse or by
\* block, ending in a parse error or not, consumes at least one token;
\* `current` never passes the EOF token; no ParseError leaves parse; and
\* when parse returns, its list has one entry for each call of declaration
\* it made and every token was read.
ProgressOfEveryCall(f) ==
    /\ ParseProgress(f.tokens, f.decls)
    /\ f.current <= EOFIndex(f.tokens)
    /\ Len(f.decls) <= EOFIndex(f.tokens)
    /\ f.exc.kind # "ParseError"
    /\ f.exc.kind = "none" =>
           /\ Len(f.statements) = Len(ByParse(f.decls))
           /\ f.current = EOFIndex(f.tokens)

\* C24: for every token list that ends with EOF, each call of declaration
\* consumes at least one token, `current` never passes the EOF token, and
\* parse ends by returning a list with one entry for each call of
\* declaration it made.
C24_ParserProgress ==
    ParsedAny =>
        /\ ProgressOfEveryCall(last.front)
        /\ last.front.exc.kind = "none"

\* What holds of C24: the progress, for every text.
ParserAlwaysProgresses == ParsedAny => ProgressOfEveryCall(last.front)

\* In {a 1} print a; the two calls that block made and the call that parse
\* made, which ended in synchronise at EOF, each consumed tokens, and parse
\* returned one entry.
ProgressThroughRecovery ==
    /\ ParsedText
    /\ last.input = <<12, 6>>
    /\ last.front.decls = <<[by |-> "block", from |-> 1, to |-> 4],
                            [by |-> "block", from |-> 4, to |-> 7],
                            [by |-> "parse", from |-> 0, to |-> 7]>>
    /\ Len(last.front.syncs) = 2
    /\ last.front.statements = <<NoneNode>>

\* The exit of parse that returns no list: the literal false raises
\* NameError in primary, after its token was consumed.
ParseLeftByNameError ==
    (ParsedText /\ 17 \in {last.input[k] : k \in DOMAIN last.input}) =>
        /\ last.front.exc.kind = "NameError"
        /\ last.front.statements = NoneNode
        /\ ParseProgress(last.front.tokens, last.front.decls)

\* Only the literal false ends parse with an exception.
OnlyFalseLeavesParse ==
    (ParsedAny /\ last.front.exc.kind # "none") =>
        /\ last.front.exc.kind = "NameError"
        /\ 17 \in {last.input[k] : k \in DOMAIN last.input}

=============================================================================
